---- MODULE Spec2Model ----
(***************************************************************************)
(* Whisper-Local orchestrator: broker deliveries -> Consumer -> forwarding *)
(* routine -> dispatch Pool -> ProcessPool (Python children) -> Producer.  *)
(*                                                                         *)
(* Strings are sequences: a path is a sequence of one-character strings,   *)
(* an error text a sequence of chunks, so that "+" is \o.  An optional     *)
(* JSON field or AMQP header is a sequence of length 0 (absent) or 1.      *)
(***************************************************************************)
EXTENDS Integers, Sequences, FiniteSets, TLC

\* ------------------------------------------------------------------ bounds
\* WORKERS_COUNT of the modelled run: dispatch routines, slots and prefetch.
NumWorkers == 2
\* Original messages published to the input exchange during a run.
MaxJobs == 2
\* Deliveries the broker makes on the consumer channel during a run.
MaxDeliveries == 4
\* Calls of channel.Publish that return an error during a run.
MaxPublishFailures == 1
MaxRespawns == 1
IdleTimeout == 1

\* --------------------------------------------------------- program constants
MaxRetries == 2

\* connection.go: the dials Connect makes at most
maxRetries == 10

MainQueue == "whisper_transcriptions"
MainExchange == "whisper_exchange"
MainRoutingKey == "transcription.request"
ResultsQueue == "whisper_results"
ResultsExchange == "whisper_results_exchange"
ResultsRoutingKey == "transcription.result"
RetryExchange == "whisper_retry_exchange"
RetryRoutingKey == "transcription.retry"
RetryQueue == "whisper_retry_queue"

\* cfg.WhisperModel, echoed in every result
WhisperModel == "base"

\* ------------------------------------------------------------------ strings
Some(v) == <<v>>
None == <<>>

ToLowerChar(c) ==
    CASE c = "M" -> "m"
      [] c = "P" -> "p"
      [] c = "O" -> "o"
      [] c = "K" -> "k"
      [] OTHER -> c

\* strings.ToLower
ToLower(s) == [i \in 1..Len(s) |-> ToLowerChar(s[i])]

\* filepath.Ext: the suffix beginning at the final dot of the final path
\* element, empty when that element has no dot.
RECURSIVE ExtFrom(_, _)
ExtFrom(path, i) ==
    IF i < 1 \/ path[i] = "/" THEN <<>>
    ELSE IF path[i] = "." THEN SubSeq(path, i, Len(path))
    ELSE ExtFrom(path, i - 1)

Ext(path) == ExtFrom(path, Len(path))

\* ---------------------------------------------------------------- validator
SupportedAudioFormats ==
    << <<".", "o", "p", "u", "s">>, <<".", "m", "p", "3">>, <<".", "w", "a", "v">>,
       <<".", "m", "4", "a">>, <<".", "o", "g", "g">>, <<".", "f", "l", "a", "c">>,
       <<".", "a", "a", "c">>, <<".", "w", "m", "a">> >>

\* The audio paths of the modelled run and what os.Stat finds there.
OkPath == <<"/", "a", "/", "o", "k", ".", "m", "p", "3">>
UpperPath == <<"/", "a", "/", "O", "K", ".", "M", "P", "3">>
XyzPath == <<"/", "a", "/", "x", ".", "x", "y", "z">>
MissingPath == <<"/", "a", "/", "g", "o", "n", "e", ".", "m", "p", "3">>
DirPath == <<"/", "a", "/", "d", ".", "m", "p", "3">>
PipePath == <<"/", "a", "/", "p", ".", "m", "p", "3">>
MissingXyzPath == <<"/", "a", "/", "n", ".", "x", "y", "z">>
EmptyPath == <<>>

RegularFiles == {OkPath, UpperPath, XyzPath}
Directories == {DirPath}
NamedPipes == {PipePath}

\* os.Stat: "err" (no such file; the empty path always fails), else the
\* kind of file found: regular, directory, or another kind
Stat(path) ==
    IF path = EmptyPath THEN "err"
    ELSE IF path \in RegularFiles THEN "file"
    ELSE IF path \in Directories THEN "dir"
    ELSE IF path \in NamedPipes THEN "pipe"
    ELSE "err"

\* FileExists without the IsDir test
FileExistsAnyStat(path) == Stat(path) # "err"

FileExists(path) ==
    IF Stat(path) = "err" THEN FALSE
    ELSE Stat(path) # "dir"

ValidateAudioExtension(path) ==
    \E i \in 1..Len(SupportedAudioFormats) :
        ToLower(Ext(path)) = SupportedAudioFormats[i]

\* -------------------------------------------------------------------- types
\* json.Unmarshal with its error ignored: the request keeps its zero values
UnmarshalLenient(body) ==
    IF ~body.wellformed
    THEN [err |-> FALSE,
          request |-> Some([AttachmentID |-> 0, AudioFilePath |-> <<>>,
                            Language |-> "", RetryCount |-> 0])]
    ELSE [err |-> FALSE,
          request |-> Some([AttachmentID |-> body.attachment_id,
                            AudioFilePath |-> body.audio_file_path,
                            Language |-> IF body.language = None THEN ""
                                         ELSE body.language[1],
                            RetryCount |-> IF body.retry_count = None THEN 0
                                           ELSE body.retry_count[1]])]

\* json.Unmarshal into TranscriptionRequest: an absent language or
\* retry_count decodes to the zero value, unknown keys (import_batch_id)
\* are dropped, a body that is not a JSON object of the right shape fails.
Unmarshal(body) ==
    IF ~body.wellformed THEN [err |-> TRUE, request |-> <<>>]
    ELSE [err |-> FALSE,
          request |-> Some([AttachmentID |-> body.attachment_id,
                            AudioFilePath |-> body.audio_file_path,
                            Language |-> IF body.language = None THEN ""
                                         ELSE body.language[1],
                            RetryCount |-> IF body.retry_count = None THEN 0
                                           ELSE body.retry_count[1]])]

\* json.Marshal(TranscriptionRequest): language and retry_count are
\* omitempty; the struct has no import_batch_id field.
MarshalRequest(request) ==
    [wellformed |-> TRUE,
     attachment_id |-> request.AttachmentID,
     audio_file_path |-> request.AudioFilePath,
     language |-> IF request.Language = "" THEN None ELSE Some(request.Language),
     retry_count |-> IF request.RetryCount = 0 THEN None
                     ELSE Some(request.RetryCount),
     import_batch_id |-> None]

\* json.Marshal(TranscriptionResult): error_message is omitempty; the
\* struct has no import_batch_id field.
MarshalResult(result) ==
    [attachment_id |-> result.AttachmentID,
     texto |-> result.Texto,
     duration |-> result.Duration,
     model |-> result.Model,
     success |-> result.Success,
     error_message |-> IF result.ErrorMessage = <<>> THEN None
                       ELSE Some(result.ErrorMessage),
     import_batch_id |-> None]

\* what a reader of whisper_results decodes as error_message
ErrorMessageOf(body) ==
    IF body.error_message = None THEN <<>> ELSE body.error_message[1]

NoHeaders == [xRetryCount |-> None, xDeath |-> FALSE]

\* ----------------------------------------------------------------- producer
\* ShouldRetry with <= for <
ShouldRetryInclusive(retryCount) == retryCount <= MaxRetries

ShouldRetry(retryCount) == retryCount < MaxRetries

\* One call of channel.Publish: the envelope handed to the broker and
\* whether the call returned nil (ok) or an error.
Publishing(exchange, key, headers, body, ok) ==
    [kind |-> "publish", exchange |-> exchange, key |-> key,
     headers |-> headers, body |-> body, ok |-> ok]

PublishResult(result, ok) ==
    Publishing(ResultsExchange, ResultsRoutingKey, NoHeaders,
               MarshalResult(result), ok)

\* PublishRetry sending the envelope straight to the input exchange
PublishRetryDirect(request, ok) ==
    Publishing(MainExchange, MainRoutingKey,
               [xRetryCount |-> Some([type |-> "int32", val |-> request.RetryCount + 1]),
                xDeath |-> FALSE],
               MarshalRequest([request EXCEPT !.RetryCount = request.RetryCount + 1]),
               ok)

\* PublishRetry without the increment
PublishRetryNoIncrement(request, ok) ==
    Publishing(RetryExchange, RetryRoutingKey,
               [xRetryCount |-> Some([type |-> "int32", val |-> request.RetryCount]),
                xDeath |-> FALSE],
               MarshalRequest(request), ok)

\* PublishRetry with the header taken before the increment
PublishRetryStaleHeader(request, ok) ==
    Publishing(RetryExchange, RetryRoutingKey,
               [xRetryCount |-> Some([type |-> "int32", val |-> request.RetryCount]),
                xDeath |-> FALSE],
               MarshalRequest([request EXCEPT !.RetryCount = request.RetryCount + 1]),
               ok)

PublishRetry(request, ok) ==
    LET incremented == [request EXCEPT !.RetryCount = request.RetryCount + 1]
    IN  Publishing(RetryExchange, RetryRoutingKey,
                   [xRetryCount |-> Some([type |-> "int32",
                                          val |-> incremented.RetryCount]),
                    xDeath |-> FALSE],
                   MarshalRequest(incremented), ok)

PublishError(attachmentID, errorMessage, ok) ==
    PublishResult([AttachmentID |-> attachmentID, Texto |-> <<>>, Duration |-> 0,
                   Model |-> WhisperModel, Success |-> FALSE,
                   ErrorMessage |-> errorMessage], ok)

PublishSuccess(attachmentID, texto, duration, ok) ==
    PublishResult([AttachmentID |-> attachmentID, Texto |-> texto,
                   Duration |-> duration, Model |-> WhisperModel,
                   Success |-> TRUE, ErrorMessage |-> <<>>], ok)

\* delivery.Ack(false) and delivery.Nack(false, requeue)
Ack == [kind |-> "ack", requeue |-> FALSE]

\* Nack that never asks for a requeue
NackNoRequeue(requeue) == [kind |-> "nack", requeue |-> FALSE]

Nack(requeue) == [kind |-> "nack", requeue |-> requeue]

\* --------------------------------------------------------------- dispatcher
\* Each function below returns the broker calls the code makes, in order;
\* ok is whether the one channel.Publish of this delivery returns nil.

\* handleFailure without the return after the Nack of a failed retry publish
handleFailureNoReturn(request, errorMessage, ok) ==
    IF ShouldRetry(request.RetryCount)
    THEN IF ~ok THEN <<PublishRetry(request, ok), Nack(TRUE), Ack>>
         ELSE <<PublishRetry(request, ok), Ack>>
    ELSE IF ~ok THEN <<PublishError(request.AttachmentID, errorMessage, ok), Nack(TRUE)>>
         ELSE <<PublishError(request.AttachmentID, errorMessage, ok), Ack>>

\* handleFailure going on to the terminal error after a failed retry publish
handleFailureFallsThrough(request, errorMessage, ok) ==
    IF ShouldRetry(request.RetryCount) /\ ok
    THEN <<PublishRetry(request, ok), Ack>>
    ELSE IF ShouldRetry(request.RetryCount)
    THEN <<PublishRetry(request, ok),
           PublishError(request.AttachmentID, errorMessage, TRUE), Ack>>
    ELSE IF ~ok THEN <<PublishError(request.AttachmentID, errorMessage, ok), Nack(TRUE)>>
         ELSE <<PublishError(request.AttachmentID, errorMessage, ok), Ack>>

\* handleFailure reporting a fixed text instead of the attempt's message
handleFailureGenericMessage(request, errorMessage, ok) ==
    IF ShouldRetry(request.RetryCount)
    THEN IF ~ok THEN <<PublishRetry(request, ok), Nack(TRUE)>>
         ELSE <<PublishRetry(request, ok), Ack>>
    ELSE IF ~ok
         THEN <<PublishError(request.AttachmentID, <<"max retries exceeded">>, ok),
                Nack(TRUE)>>
         ELSE <<PublishError(request.AttachmentID, <<"max retries exceeded">>, ok),
                Ack>>

\* Pool.handleFailure
handleFailure(request, errorMessage, ok) ==
    IF ShouldRetry(request.RetryCount)
    THEN IF ~ok THEN <<PublishRetry(request, ok), Nack(TRUE)>>
         ELSE <<PublishRetry(request, ok), Ack>>
    ELSE IF ~ok THEN <<PublishError(request.AttachmentID, errorMessage, ok), Nack(TRUE)>>
         ELSE <<PublishError(request.AttachmentID, errorMessage, ok), Ack>>

AudioFileNotFound == "Audio file not found: "
UnsupportedAudioFormat == "Unsupported audio format"

\* processJob treating an unsupported extension as a failed attempt
processJobValidateRetriesFormat(request, ok) ==
    IF ~FileExists(request.AudioFilePath)
    THEN IF ~ok
         THEN <<PublishError(request.AttachmentID,
                             <<AudioFileNotFound>> \o request.AudioFilePath, ok),
                Nack(TRUE)>>
         ELSE <<PublishError(request.AttachmentID,
                             <<AudioFileNotFound>> \o request.AudioFilePath, ok),
                Ack>>
    ELSE IF ~ValidateAudioExtension(request.AudioFilePath)
    THEN handleFailure(request, <<UnsupportedAudioFormat>>, ok)
    ELSE <<>>

\* Pool.processJob, steps 1 and 2: the calls made when a pre-check rejects
\* the job, <<>> when both pass and the job goes on to Execute.
processJobValidate(request, ok) ==
    IF ~FileExists(request.AudioFilePath)
    THEN IF ~ok
         THEN <<PublishError(request.AttachmentID,
                             <<AudioFileNotFound>> \o request.AudioFilePath, ok),
                Nack(TRUE)>>
         ELSE <<PublishError(request.AttachmentID,
                             <<AudioFileNotFound>> \o request.AudioFilePath, ok),
                Ack>>
    ELSE IF ~ValidateAudioExtension(request.AudioFilePath)
    THEN IF ~ok
         THEN <<PublishError(request.AttachmentID, <<UnsupportedAudioFormat>>, ok),
                Nack(TRUE)>>
         ELSE <<PublishError(request.AttachmentID, <<UnsupportedAudioFormat>>, ok),
                Ack>>
    ELSE <<>>

\* processJob acking in step 6 whether or not the publish failed
processJobFinishIgnoresPublishError(request, res, ok) ==
    IF res.err THEN handleFailure(request, res.errText, ok)
    ELSE IF ~res.response.Success
    THEN handleFailure(request, res.response.ErrorMessage, ok)
    ELSE <<PublishSuccess(request.AttachmentID, res.response.Texto,
                          res.response.Duration, ok), Ack>>

\* processJob wrapping Execute's error text in step 4
processJobFinishWrapsError(request, res, ok) ==
    IF res.err THEN handleFailure(request, <<"execution failed: ">> \o res.errText, ok)
    ELSE IF ~res.response.Success
    THEN handleFailure(request, res.response.ErrorMessage, ok)
    ELSE IF ~ok
    THEN <<PublishSuccess(request.AttachmentID, res.response.Texto,
                          res.response.Duration, ok), Nack(TRUE)>>
    ELSE <<PublishSuccess(request.AttachmentID, res.response.Texto,
                          res.response.Duration, ok), Ack>>

\* Pool.processJob, steps 4 to 6: the calls made once Execute has returned
\* res = [err, errText, response].
processJobFinish(request, res, ok) ==
    IF res.err THEN handleFailure(request, res.errText, ok)
    ELSE IF ~res.response.Success
    THEN handleFailure(request, res.response.ErrorMessage, ok)
    ELSE IF ~ok
    THEN <<PublishSuccess(request.AttachmentID, res.response.Texto,
                          res.response.Duration, ok), Nack(TRUE)>>
    ELSE <<PublishSuccess(request.AttachmentID, res.response.Texto,
                          res.response.Duration, ok), Ack>>

\* ------------------------------------------------------------------- broker
\* the topology without the binding of the results queue
BindingsWithoutResults ==
    { [exchange |-> MainExchange, key |-> MainRoutingKey, queue |-> MainQueue],
      [exchange |-> RetryExchange, key |-> RetryRoutingKey, queue |-> RetryQueue] }

\* QueueBind calls of declareConsumerTopology and declareProducerTopology
Bindings ==
    { [exchange |-> MainExchange, key |-> MainRoutingKey, queue |-> MainQueue],
      [exchange |-> ResultsExchange, key |-> ResultsRoutingKey, queue |-> ResultsQueue],
      [exchange |-> RetryExchange, key |-> RetryRoutingKey, queue |-> RetryQueue] }

\* arguments of the retry queue: where an expired message is republished
RetryDeadLetterExchange == MainExchange
\* the retry queue dead-lettering with its own routing key
RetryDeadLetterRoutingKeyKept == RetryRoutingKey

RetryDeadLetterRoutingKey == MainRoutingKey

\* a direct exchange: the queues bound with exactly this routing key
Route(exchange, key) ==
    { b.queue : b \in { x \in Bindings : x.exchange = exchange /\ x.key = key } }

\* the messages that the successful publishes among calls put on queue
Routed(calls, queue) ==
    LET hit == SelectSeq(calls,
                   LAMBDA c : c.kind = "publish" /\ c.ok
                              /\ queue \in Route(c.exchange, c.key))
    IN  [i \in 1..Len(hit) |->
            [body |-> hit[i].body, headers |-> hit[i].headers,
             redelivered |-> FALSE]]

Settles(calls) == SelectSeq(calls, LAMBDA c : c.kind \in {"ack", "nack"})
Publishes(calls) == SelectSeq(calls, LAMBDA c : c.kind = "publish")

\* the broker requeues a delivery when the first settlement it receives
\* for it is a nack with requeue
Requeued(calls, msg) ==
    IF Settles(calls) # <<>> /\ Settles(calls)[1].kind = "nack"
       /\ Settles(calls)[1].requeue
    THEN << [msg EXCEPT !.redelivered = TRUE] >>
    ELSE <<>>

\* ---------------------------------------------------------------- workload
\* What clients publish to the input exchange.  attachment_id k is the
\* k-th message of the run.
Garbage ==
    [wellformed |-> FALSE, attachment_id |-> 0, audio_file_path |-> <<>>,
     language |-> None, retry_count |-> None, import_batch_id |-> None]

\* a body that is not JSON
GarbageMessage == [body |-> Garbage, headers |-> NoHeaders, redelivered |-> FALSE]

\* pairs of payload retry_count and x-retry-count header
InputRetryCounts ==
    { [payload |-> None, header |-> None],
      [payload |-> Some(1), header |-> None],
      [payload |-> Some(0), header |-> Some([type |-> "int32", val |-> 2])],
      [payload |-> None, header |-> Some([type |-> "int64", val |-> 1])],
      [payload |-> Some(2), header |-> Some([type |-> "string", val |-> 0])],
      [payload |-> Some(3), header |-> None],
      [payload |-> Some(-1), header |-> None] }

FirstTime == [payload |-> None, header |-> None]
LastTry == [payload |-> Some(0), header |-> Some([type |-> "int32", val |-> 2])]

\* the import_batch_id and the language the client gives the k-th message
ImportBatchIdOf(k) == Some(6 + k)
LanguageOf(k) == Some("es")

InputMessage(k, path, r) ==
    [body |-> [wellformed |-> TRUE, attachment_id |-> k,
               audio_file_path |-> path, language |-> LanguageOf(k),
               retry_count |-> r.payload, import_batch_id |-> ImportBatchIdOf(k)],
     headers |-> [xRetryCount |-> r.header, xDeath |-> FALSE],
     redelivered |-> FALSE]

\* any message a client may send as the k-th: a body that is not JSON, a
\* good path with every retry-count pair, each other path on its first
\* and on its last try
InputMessages(k) ==
    { GarbageMessage }
    \cup { InputMessage(k, OkPath, r) : r \in InputRetryCounts }
    \cup { InputMessage(k, p, r) :
             p \in {UpperPath, XyzPath, MissingPath, MissingXyzPath, DirPath, PipePath,
                    EmptyPath},
             r \in {FirstTime, LastTry} }

\* a first-time request for a file that is there
PlainMessages(k) ==
    { InputMessage(k, OkPath, FirstTime) }

\* The runs explored: one message of any kind, a body that is not JSON
\* followed by a plain request, or up to MaxJobs plain requests that
\* compete for the dispatch routines and the slots.
Workloads ==
    { <<m>> : m \in InputMessages(1) }
    \cup { <<GarbageMessage, m>> : m \in PlainMessages(1) }
    \cup UNION { { w \in [1..n -> UNION { PlainMessages(k) : k \in 1..n }] :
                     \A k \in 1..n : w[k] \in PlainMessages(k) } : n \in 2..MaxJobs }

\* ------------------------------------------------------------------- state
VARIABLES
    inputQ,     \* whisper_transcriptions, head first
    retryQ,     \* whisper_retry_queue (the delay ring), head first
    results,    \* whisper_results: the bodies published so far
    unacked,    \* broker: the deliveries not settled yet, [tag, msg]
    jobs,       \* Pool.jobs, the buffered channel
    inflight,   \* dispatch routines inside Execute: [job, proc], the Job each
                \* is processing and the slot it holds; the others are idle
    processes,  \* ProcessPool.processes: busy and alive of each slot
    teardown,   \* main after the signal: the teardown calls made so far, in order
    returned,   \* the number of dispatch routines that returned (wg.Done)
    chain,      \* observer: per attachment_id, what its deliveries added up to
    step,       \* observer: what the step just taken did to a delivery
    caught,     \* observer: the deliveries in processing when the signal came
    boot,       \* main before the signal: where startup is and what it built
    slots,      \* ProcessPool.processes, seen closely: the slot object at each index
    routines,   \* the dispatch routines inside Execute: where each is, what it holds
    last,       \* observer: what the pool did in the step just taken
    mu,         \* ProcessPool.mu and each PythonProcess.mu: who holds it
    thr         \* the routines that use the pool's locks: where each is

\* the state of a run after startup
runVars == <<inputQ, retryQ, results, unacked, jobs, inflight, processes, teardown,
             returned, chain, step, caught>>

\* the state that a run after startup leaves alone
poolVars == <<slots, routines, last>>

\* the process pool at the grain of its mutexes
lockVars == <<mu, thr>>

aside == <<boot, poolVars, lockVars>>

vars == <<runVars, aside>>

\* ------------------------------------------------------------------ startup
\* Connect sleeping after every failed dial
RetryAfterAlways(i) == i < maxRetries

\* Connect, after the failed dial of iteration i (from 0): whether it logs
\* the retry and sleeps retryInterval
RetryAfter(i) == i < maxRetries - 1

\* main at its first statement
Booting ==
    [pc |-> "config.Load", built |-> <<>>, closed |-> <<>>, dials |-> 0, sleeps |-> 0,
     spawned |-> 0, killed |-> 0, reaper |-> FALSE, failed |-> <<>>, exit |-> <<>>]

\* main at <-shutdown after a startup where nothing failed
Started ==
    [Booting EXCEPT !.pc = "ready",
                    !.built = <<"conn", "consumer", "producer", "processPool",
                                "workerPool", "consume">>,
                    !.dials = 1,
                    !.spawned = NumWorkers,
                    !.reaper = TRUE]

\* log.Fatalf in main after call failed: the message is logged and
\* os.Exit(1) ends the process; deferred calls are not run
Fatalf(b, call) == [b EXCEPT !.pc = "exited", !.failed = <<call>>, !.exit = <<1>>]

\* call returned without error and main goes on to the statement at next
Built(b, call, next) == [b EXCEPT !.pc = next, !.built = Append(@, call)]

\* whether main's teardown, or the runtime, got as far as call
Done(call) == \E i \in 1..Len(teardown) : teardown[i] = call

\* ------------------------------------------------------- process pool, closely
\* The dispatch routines Pool.Start starts and the slots NewProcessPool
\* spawns: main passes cfg.MaxWorkers to both.
numWorkersMore == NumWorkers + 1
numWorkers == NumWorkers
maxWorkers == NumWorkers

\* cfg.ProcessIdleTimeout, in reaper intervals
idleTimeout == IdleTimeout

\* spawnProcess: the PythonProcess object made for an index, the gen-th
\* made for it; since stands for time.Since(proc.lastUsed) in reaper
\* intervals, counted up to idleTimeout + 1
spawnProcess(gen) == [gen |-> gen, busy |-> FALSE, alive |-> TRUE, since |-> 0]

\* no slot object
NoObj == [idx |-> 0, gen |-> 0]

NoLast ==
    [op |-> "none", obj |-> NoObj, kind |-> "", res |-> <<>>, spawnable |-> {},
     failed |-> {}, killed |-> {}]

\* The routines that take the pool's locks: the dispatch routines, in
\* Execute; the reaper, in idleCleanupLoop; a caller of Stats; and main,
\* which calls Shutdown.
reaperId == numWorkers + 1
statsId == numWorkers + 2
mainId == numWorkers + 3
Threads == 1..mainId

\* the function each routine runs, which is where it starts
Entry(t) ==
    IF t = reaperId THEN "cleanupIdleProcesses"
    ELSE IF t = statsId THEN "Stats"
    ELSE IF t = mainId THEN "Shutdown"
    ELSE "acquireProcess"

\* every mutex free (the zero value of sync.Mutex) and every routine at
\* the start of its function
LocksAtStart ==
    /\ mu = [pool |-> 0, proc |-> {}]
    /\ thr = [t \in Threads |-> [pc |-> Entry(t), i |-> 0, obj |-> NoObj]]

\* the pool as NewProcessPool returns it, every dispatch routine outside
\* Execute
PoolAtStart ==
    /\ slots = [i \in 1..maxWorkers |-> spawnProcess(0)]
    /\ routines = {}
    /\ last = NoLast
    /\ LocksAtStart

\* ----------------------------------------------------------------- observer
\* how the delivered message came to the input queue
Via(msg) ==
    IF msg.redelivered THEN "requeue"
    ELSE IF msg.headers.xDeath THEN "ring"
    ELSE "fresh"

CountKind(calls, kind) == Len(SelectSeq(calls, LAMBDA c : c.kind = kind))

FailedPublishes(calls) ==
    Len(SelectSeq(calls, LAMBDA c : c.kind = "publish" /\ ~c.ok))

\* the x-retry-count values of the envelopes that calls put on the retry queue
RetryCounts(calls) ==
    [i \in 1..Len(Routed(calls, RetryQueue)) |->
        Routed(calls, RetryQueue)[i].headers.xRetryCount[1].val]

\* whether Execute's result is a failed attempt, and the text it failed with
Failed(res) == res.err \/ ~res.response.Success
FailureText(res) == IF res.err THEN res.errText ELSE res.response.ErrorMessage

\* Whether the attempt made for request ends its retry chain: a pre-check
\* rejection (no attempt), a success, or a failure with no retry left.
Terminal(request, attempt) ==
    \/ attempt = None
    \/ ~Failed(attempt[1])
    \/ request.RetryCount >= MaxRetries

\* the attachment_ids of a run: those of Workloads and those of a burst
BurstSize == NumWorkers + 1
MaxIds == IF MaxJobs > BurstSize THEN MaxJobs ELSE BurstSize

\* A delivery tag names the attachment_id decoded (0 when the body does not
\* decode) and the index among the deliveries of that id.
Tag(job, n) == [job |-> job, n |-> n]

NoChain ==
    [seen |-> <<>>, execs |-> 0, fails |-> 0, pubs |-> 0,
     failedPubs |-> 0, retries |-> <<>>, nresults |-> 0, acks |-> 0, nacks |-> 0,
     termAcks |-> 0]

\* chain c after a delivery of its job is made: seen lists, per delivery,
\* the retry_count the consumer computed and how the message came
AfterDelivery(c, msg, rc) ==
    [c EXCEPT !.seen = Append(@, [rc |-> rc, via |-> Via(msg)])]

\* chain c after Execute is invoked for a delivery of its job
AfterExecuteCall(c) == [c EXCEPT !.execs = @ + 1]

\* chain c after the dispatch routine made calls for a delivery of request
\* on which Execute returned attempt (None when it was not called)
AfterCalls(c, request, attempt, calls) ==
    [c EXCEPT !.fails = IF attempt # None /\ Failed(attempt[1]) THEN @ + 1 ELSE @,
              !.pubs = @ + CountKind(calls, "publish"),
              !.failedPubs = @ + FailedPublishes(calls),
              !.retries = @ \o RetryCounts(calls),
              !.nresults = @ + Len(Routed(calls, ResultsQueue)),
              !.acks = @ + CountKind(calls, "ack"),
              !.nacks = @ + CountKind(calls, "nack"),
              !.termAcks = IF Terminal(request, attempt) /\ CountKind(calls, "ack") > 0
                           THEN @ + 1 ELSE @]

\* the sum of f over 0..n
RECURSIVE SumOver(_, _)
SumOver(f, n) == IF n < 0 THEN 0 ELSE f[n] + SumOver(f, n - 1)

NumDeliveries == SumOver([j \in 0..MaxIds |-> Len(chain[j].seen)], MaxIds)
PublishFailures == SumOver([j \in 0..MaxIds |-> chain[j].failedPubs], MaxIds)

\* whether the next channel.Publish may return an error
PublishOutcomes == IF PublishFailures < MaxPublishFailures THEN BOOLEAN ELSE {TRUE}

NoStep == [op |-> "none", tag |-> Tag(0, 0), request |-> <<>>, attempt |-> <<>>,
           calls |-> <<>>]

\* a dispatch routine ran processJob to its end for the delivery of job
Processed(job, attempt, calls) ==
    [op |-> "processJob", tag |-> job.Delivery, request |-> Some(job.Request),
     attempt |-> attempt, calls |-> calls]

Init ==
    /\ inputQ \in Workloads
    /\ retryQ = <<>>
    /\ results = <<>>
    /\ unacked = {}
    /\ jobs = <<>>
    /\ inflight = {}
    /\ processes = [i \in 1..NumWorkers |-> [busy |-> FALSE, alive |-> TRUE]]
    /\ teardown = <<>>
    /\ returned = 0
    /\ chain = [j \in 0..MaxIds |-> NoChain]
    /\ step = NoStep
    /\ caught = {}
    /\ boot = Started
    /\ PoolAtStart

\* ----------------------------------------------------------------- consumer
\* a prefetch as large as the Job channel
prefetchCountTwice == 2 * NumWorkers

\* NewConsumer, channel.Qos(prefetchCount, 0, false): main passes
\* cfg.MaxWorkers, the number of dispatch routines
prefetchCount == NumWorkers

\* NewPool, the capacity of the buffered Job channel
jobsCapacity == NumWorkers * 2

\* the header override accepting the int32 encoding only
ExtractRetryCountInt32Only(request, headers) ==
    IF headers.xRetryCount # None /\ headers.xRetryCount[1].type = "int32"
    THEN [request EXCEPT !.RetryCount = headers.xRetryCount[1].val]
    ELSE request

\* Consumer.Consume, the header override: an int32 or int64 x-retry-count
\* replaces the payload's retry_count, any other type leaves it.
ExtractRetryCount(request, headers) ==
    IF headers.xRetryCount # None /\ headers.xRetryCount[1].type = "int32"
    THEN [request EXCEPT !.RetryCount = headers.xRetryCount[1].val]
    ELSE IF headers.xRetryCount # None /\ headers.xRetryCount[1].type = "int64"
    THEN [request EXCEPT !.RetryCount = headers.xRetryCount[1].val]
    ELSE request

\* Consumer.Consume, one turn of the goroutine's loop: the broker delivers
\* the head of the input queue (within the prefetch credit) and the body
\* is decoded.  A body that does not decode is nacked without requeue.
\* Otherwise the Job is sent on the unbuffered channel, where main's
\* forwarding goroutine receives it and calls Pool.Submit, the send on the
\* buffered channel of capacity 2 * numWorkers.
ConsumeDelivery ==
    /\ UNCHANGED aside
    /\ inputQ # <<>>
    /\ Cardinality(unacked) < prefetchCount
    /\ ~Done("consumer.Close")
    /\ ~Done("panic")
    /\ Done("close(p.jobs)") => Unmarshal(Head(inputQ).body).err
    /\ LET msg == Head(inputQ)
           dec == Unmarshal(msg.body)
       IN  /\ inputQ' = Tail(inputQ)
           /\ IF dec.err
              THEN /\ chain' = [chain EXCEPT ![0] =
                        [AfterDelivery(@, msg, 0) EXCEPT !.nacks = @ + 1]]
                   /\ step' = [NoStep EXCEPT !.op = "Consume",
                                             !.tag = Tag(0, Len(chain[0].seen) + 1),
                                             !.calls = <<Nack(FALSE)>>]
                   /\ UNCHANGED <<unacked, jobs>>
              ELSE LET request == ExtractRetryCount(dec.request[1], msg.headers)
                       tag == Tag(request.AttachmentID,
                                  Len(chain[request.AttachmentID].seen) + 1)
                   IN  /\ Len(jobs) < jobsCapacity
                       /\ chain' = [chain EXCEPT ![tag.job] =
                                      AfterDelivery(@, msg, request.RetryCount)]
                       /\ unacked' = unacked \cup {[tag |-> tag, msg |-> msg]}
                       /\ jobs' = Append(jobs, [Request |-> request, Delivery |-> tag])
                       /\ step' = NoStep
    /\ UNCHANGED <<retryQ, results, inflight, processes, teardown, returned, caught>>

\* Consume within the deliveries a run of Spec explores
Consume ==
    /\ NumDeliveries < MaxDeliveries
    /\ ConsumeDelivery

\* The retry queue's TTL runs out for its head: the broker dead-letters it
\* to the input exchange with its headers kept (and x-death added).
Expire ==
    /\ UNCHANGED aside
    /\ retryQ # <<>>
    /\ retryQ' = Tail(retryQ)
    /\ inputQ' = IF MainQueue \in Route(RetryDeadLetterExchange, RetryDeadLetterRoutingKey)
                 THEN Append(inputQ, [Head(retryQ) EXCEPT !.headers.xDeath = TRUE])
                 ELSE inputQ
    /\ step' = NoStep
    /\ UNCHANGED <<results, unacked, jobs, inflight, processes, chain, teardown,
                    returned, caught>>

\* The broker's side of the calls a dispatch routine made for delivery tag:
\* each envelope that was accepted is routed to the queues bound to its
\* exchange and key, the first settlement releases the delivery, and a
\* nack with requeue puts the message back at the head of its queue.
BrokerApply(tag, calls) ==
    /\ inputQ' = (IF \E u \in unacked : u.tag = tag
                  THEN Requeued(calls, (CHOOSE u \in unacked : u.tag = tag).msg)
                  ELSE <<>>)
                 \o inputQ \o Routed(calls, MainQueue)
    /\ retryQ' = retryQ \o Routed(calls, RetryQueue)
    /\ results' = results \o [i \in 1..Len(Routed(calls, ResultsQueue)) |->
                                 Routed(calls, ResultsQueue)[i].body]
    /\ unacked' = IF Settles(calls) # <<>>
                  THEN { u \in unacked : u.tag # tag }
                  ELSE unacked

\* ------------------------------------------------------------- process pool
\* what Execute returns
ExecError(text) == [err |-> TRUE, errText |-> text, response |-> <<>>]
ExecResponse(response) == [err |-> FALSE, errText |-> <<>>, response |-> response]

\* what a child can answer, and what can go wrong on its pipes
WorkerResponses ==
    { [Success |-> TRUE, Texto |-> <<"hola">>, Duration |-> 2, ErrorMessage |-> <<>>],
      [Success |-> FALSE, Texto |-> <<>>, Duration |-> 0, ErrorMessage |-> <<"boom">>] }

ExchangeOutcomes ==
    { [kind |-> "write", res |-> ExecError(<<"failed to write to process: ", "EPIPE">>)],
      [kind |-> "read", res |-> ExecError(<<"failed to read from process: ", "EOF">>)],
      [kind |-> "parse",
        res |-> ExecError(<<"failed to parse response: ", "unexpected end of JSON input",
                            ", raw: ", "{">>)] }
    \cup { [kind |-> "response", res |-> ExecResponse(r)] : r \in WorkerResponses }

\* acquireProcess, first loop: the first slot that is alive and not busy
FirstIdle ==
    LET idle == { i \in 1..NumWorkers : ~processes[i].busy /\ processes[i].alive }
    IN  IF idle = {} THEN 0 ELSE CHOOSE i \in idle : \A j \in idle : i <= j

DeadSlots == { i \in 1..NumWorkers : ~processes[i].alive }

\* acquireProcess, second loop: with spawned the dead slots whose
\* spawnProcess would succeed, the first of them in index order
FirstRespawn(spawned) ==
    IF spawned = {} THEN 0 ELSE CHOOSE i \in spawned : \A j \in spawned : i <= j

\* acquireProcess: the slot returned busy, 0 for "no available workers"
acquireProcess(spawned) ==
    IF FirstIdle # 0 THEN FirstIdle ELSE FirstRespawn(spawned)

\* releaseProcess
releaseProcess(procs, i) == [procs EXCEPT ![i].busy = FALSE]

\* Execute after a successful acquire, on slot i: an I/O error marks the
\* slot dead; the deferred release runs in every case.
ExecuteOn(procs, i, outcome) ==
    releaseProcess(
        IF outcome.kind \in {"write", "read"} THEN [procs EXCEPT ![i].alive = FALSE]
        ELSE procs, i)

\* ---------------------------------------------------------- dispatch routines
NoAvailableWorkers == <<"failed to acquire process: ", "no available workers">>

\* processJob publishes, settles and returns: the dispatch routine made
\* these calls for the delivery of job and is back at the head of its loop
Settle(job, attempt, calls) ==
    /\ BrokerApply(job.Delivery, calls)
    /\ step' = Processed(job, attempt, calls)

\* An idle dispatch routine (Pool.worker) receives a Job and processJob
\* runs up to its first wait.  A job that a pre-check rejects is answered
\* and settled at once.  Otherwise Execute is called and runs
\* acquireProcess under the pool lock: with a slot the exchange with the
\* child begins; with none Execute returns the error and processJob goes
\* through handleFailure.  spawned is the set of dead slots whose
\* spawnProcess would succeed now.
TakeJob ==
    /\ UNCHANGED aside
    /\ Cardinality(inflight) + returned < NumWorkers
    /\ jobs # <<>>
    /\ jobs' = Tail(jobs)
    /\ UNCHANGED <<teardown, returned, caught>>
    /\ LET job == Head(jobs)
           res == ExecError(NoAvailableWorkers)
       IN  IF processJobValidate(job.Request, TRUE) # <<>>
           THEN /\ \E ok \in PublishOutcomes :
                     /\ Settle(job, None, processJobValidate(job.Request, ok))
                     /\ chain' = [chain EXCEPT ![job.Delivery.job] =
                          AfterCalls(@, job.Request, None,
                                     processJobValidate(job.Request, ok))]
                /\ UNCHANGED <<inflight, processes>>
           ELSE \E spawned \in (IF FirstIdle # 0 THEN {{}} ELSE SUBSET DeadSlots) :
                  IF acquireProcess(spawned) # 0
                  THEN /\ processes' = [processes EXCEPT ![acquireProcess(spawned)] =
                                           [busy |-> TRUE, alive |-> TRUE]]
                       /\ inflight' = inflight \cup
                            {[job |-> job, proc |-> acquireProcess(spawned)]}
                       /\ chain' = [chain EXCEPT ![job.Delivery.job] =
                                       AfterExecuteCall(@)]
                       /\ step' = NoStep
                       /\ UNCHANGED <<inputQ, retryQ, results, unacked>>
                  ELSE /\ \E ok \in PublishOutcomes :
                            /\ Settle(job, Some(res),
                                      processJobFinish(job.Request, res, ok))
                            /\ chain' = [chain EXCEPT ![job.Delivery.job] =
                                 AfterCalls(AfterExecuteCall(@), job.Request, Some(res),
                                            processJobFinish(job.Request, res, ok))]
                       /\ UNCHANGED <<inflight, processes>>

\* The exchange of one dispatch routine with its child ends (response,
\* parse error or I/O error), Execute releases the slot and returns, and
\* processJob publishes and settles.
Complete ==
    /\ UNCHANGED aside
    /\ \E r \in inflight, outcome \in ExchangeOutcomes, ok \in PublishOutcomes :
         /\ processes' = ExecuteOn(processes, r.proc, outcome)
         /\ inflight' = inflight \ {r}
         /\ Settle(r.job, Some(outcome.res),
                   processJobFinish(r.job.Request, outcome.res, ok))
         /\ chain' = [chain EXCEPT ![r.job.Delivery.job] =
                         AfterCalls(@, r.job.Request, Some(outcome.res),
                                    processJobFinish(r.job.Request, outcome.res, ok))]
    /\ UNCHANGED <<jobs, teardown, returned, caught>>

\* cleanupIdleProcesses on a reaper tick; idle is the set of slots whose
\* lastUsed is older than the idle timeout at that tick
cleanupIdleProcesses ==
    /\ UNCHANGED aside
    /\ ~Done("processPool.Shutdown")
    /\ ~Done("panic")
    /\ \E idle \in SUBSET (1..NumWorkers) :
         /\ idle # {}
         /\ \A i \in idle : ~processes[i].busy /\ processes[i].alive
         /\ processes' = [i \in 1..NumWorkers |->
                            IF i \in idle THEN [processes[i] EXCEPT !.alive = FALSE]
                            ELSE processes[i]]
    /\ step' = NoStep
    /\ UNCHANGED <<inputQ, retryQ, results, unacked, jobs, inflight, chain, teardown,
                    returned, caught>>

Next ==
    \/ Consume
    \/ Expire
    \/ TakeJob
    \/ Complete
    \/ cleanupIdleProcesses

Spec == Init /\ [][Next]_vars

\* ------------------------------------------------------------------ teardown
\* main's deferred calls, in the order the defer statements are executed
Deferred ==
    <<"conn.Close", "consumer.Close", "producer.Close", "processPool.Shutdown",
      "workerPool.Shutdown">>

\* the deferred calls that returned so far
RanDeferred ==
    Cardinality({ i \in 1..Len(teardown) : \E k \in 1..Len(Deferred) : teardown[i] = Deferred[k] })

\* main returned and call is the deferred call to run now: deferred calls
\* run last in, first out
Running(call) ==
    /\ teardown # <<>>
    /\ ~Done("panic")
    /\ RanDeferred < Len(Deferred)
    /\ Deferred[Len(Deferred) - RanDeferred] = call

\* the orders in which the broker may put the messages of us back
Orders(us) ==
    { q \in [1..Cardinality(us) -> us] : \A u \in us : \E i \in 1..Cardinality(us) : q[i] = u }

\* the broker requeues the unsettled deliveries q of a channel that closed
RequeuedOnClose(q) == [i \in 1..Len(q) |-> [q[i].msg EXCEPT !.redelivered = TRUE]]

\* Pool.Shutdown returning without the wait
wgWaitSkipped == returned <= NumWorkers

\* Pool.Shutdown, p.wg.Wait(): every dispatch routine ran its wg.Done
wgWait == returned = NumWorkers

\* The signal arrives, main leaves <-shutdown and returns, and the last
\* deferred call, Pool.Shutdown, closes p.shutdown and p.jobs and waits.
PoolShutdown ==
    /\ UNCHANGED aside
    /\ teardown = <<>>
    /\ Deferred[Len(Deferred)] = "workerPool.Shutdown"
    /\ teardown' = <<"close(p.shutdown)", "close(p.jobs)">>
    /\ caught' = { r.job.Delivery : r \in inflight }
    /\ step' = NoStep
    /\ UNCHANGED <<inputQ, retryQ, results, unacked, jobs, inflight, processes,
                    returned, chain>>

\* Pool.worker, a dispatch routine at its select after the close: the
\* shutdown case is ready (and so is the receive: a buffered Job through
\* TakeJob, or the closed and empty channel), and the routine returns.
workerReturns ==
    /\ UNCHANGED aside
    /\ teardown # <<>>
    /\ ~Done("panic")
    /\ Cardinality(inflight) + returned < NumWorkers
    /\ returned' = returned + 1
    /\ step' = NoStep
    /\ UNCHANGED <<inputQ, retryQ, results, unacked, jobs, inflight, processes,
                    teardown, chain, caught>>

\* Pool.Shutdown returns from p.wg.Wait()
PoolShutdownReturns ==
    /\ UNCHANGED aside
    /\ Running("workerPool.Shutdown")
    /\ wgWait
    /\ teardown' = Append(teardown, "workerPool.Shutdown")
    /\ step' = NoStep
    /\ UNCHANGED <<inputQ, retryQ, results, unacked, jobs, inflight, processes,
                    returned, chain, caught>>

\* ProcessPool.Shutdown: the reaper is told to stop, and each child has
\* its stdin closed, is killed and waited for; busy and alive are left
\* as they are.
ProcessPoolShutdown ==
    /\ UNCHANGED aside
    /\ Running("processPool.Shutdown")
    /\ teardown' = Append(teardown, "processPool.Shutdown")
    /\ step' = NoStep
    /\ UNCHANGED <<inputQ, retryQ, results, unacked, jobs, inflight, processes,
                    returned, chain, caught>>

\* Producer.Close
ProducerClose ==
    /\ UNCHANGED aside
    /\ Running("producer.Close")
    /\ teardown' = Append(teardown, "producer.Close")
    /\ step' = NoStep
    /\ UNCHANGED <<inputQ, retryQ, results, unacked, jobs, inflight, processes,
                    returned, chain, caught>>

\* Consumer.Close: the channel the deliveries came on is closed; the broker
\* stops delivering and requeues what was not settled on it.
ConsumerClose ==
    /\ UNCHANGED aside
    /\ Running("consumer.Close")
    /\ teardown' = Append(teardown, "consumer.Close")
    /\ \E q \in Orders(unacked) : inputQ' = RequeuedOnClose(q) \o inputQ
    /\ unacked' = {}
    /\ step' = NoStep
    /\ UNCHANGED <<retryQ, results, jobs, inflight, processes, returned, chain, caught>>

\* conn.Close
ConnClose ==
    /\ UNCHANGED aside
    /\ Running("conn.Close")
    /\ teardown' = Append(teardown, "conn.Close")
    /\ step' = NoStep
    /\ UNCHANGED <<inputQ, retryQ, results, unacked, jobs, inflight, processes,
                    returned, chain, caught>>

\* Between close(p.jobs) and Consumer.Close the consumer is still open: a
\* request that arrives is decoded and handed to main's forwarder, whose
\* Pool.Submit sends on the closed channel and panics.  The process dies
\* with no deferred call run, the connection drops and the broker
\* requeues every delivery not settled.
SubmitPanics ==
    /\ UNCHANGED aside
    /\ Done("close(p.jobs)")
    /\ ~Done("consumer.Close")
    /\ ~Done("panic")
    /\ inputQ # <<>>
    /\ Cardinality(unacked) < prefetchCount
    /\ ~Unmarshal(Head(inputQ).body).err
    /\ LET msg == Head(inputQ)
           request == ExtractRetryCount(Unmarshal(msg.body).request[1], msg.headers)
           tag == Tag(request.AttachmentID, Len(chain[request.AttachmentID].seen) + 1)
       IN  /\ chain' = [chain EXCEPT ![tag.job] = AfterDelivery(@, msg, request.RetryCount)]
           /\ \E q \in Orders(unacked \cup {[tag |-> tag, msg |-> msg]}) :
                  inputQ' = RequeuedOnClose(q) \o Tail(inputQ)
    /\ unacked' = {}
    /\ jobs' = <<>>
    /\ inflight' = {}
    /\ teardown' = Append(teardown, "panic")
    /\ step' = NoStep
    /\ UNCHANGED <<retryQ, results, processes, returned, caught>>

\* The program from start to the end of its teardown, the signal coming
\* at any moment of a run on two plain requests.
ShutdownInit ==
    /\ Init
    /\ Len(inputQ) = 2
    /\ \A i \in 1..Len(inputQ) : inputQ[i] \in PlainMessages(i)

ShutdownNext ==
    \/ Consume
    \/ Expire
    \/ TakeJob
    \/ Complete
    \/ cleanupIdleProcesses
    \/ PoolShutdown
    \/ workerReturns
    \/ PoolShutdownReturns
    \/ ProcessPoolShutdown
    \/ ProducerClose
    \/ ConsumerClose
    \/ ConnClose
    \/ SubmitPanics

ShutdownSpec == ShutdownInit /\ [][ShutdownNext]_vars

\* ------------------------------------------------- the process pool, closely
\* ProcessPool seen at the grain of its locks: Execute is acquireProcess,
\* the exchange with the child, and the deferred releaseProcess; the
\* reaper runs between them; each respawn makes a new PythonProcess.
\* Every dispatch routine has a Job whenever it is outside Execute.

\* the first loop's test without the busy flag
AvailableIgnoringBusy(o) == o.alive

\* acquireProcess, first loop: !proc.busy && proc.alive
Available(o) == ~o.busy /\ o.alive

\* the first index whose slot is available, 0 when there is none
firstAvailable ==
    LET av == { i \in 1..maxWorkers : Available(slots[i]) }
    IN  IF av = {} THEN 0 ELSE CHOOSE i \in av : \A j \in av : i <= j

\* a second loop that respawns whatever slot it comes to
anyIndexes == 1..maxWorkers

\* acquireProcess, second loop: the indexes whose slot has !proc.alive
deadIndexes == { i \in 1..maxWorkers : ~slots[i].alive }

\* a respawn adding the new object at the end of ProcessPool.processes
storeAppended(s, i, new) == Append(s, new)

\* acquireProcess, p.processes[i] = newProc
storeAt(s, i, new) == [s EXCEPT ![i] = new]

\* the respawns made so far
Respawns == SumOver([i \in 0..maxWorkers |-> IF i = 0 THEN 0 ELSE slots[i].gen], maxWorkers)

\* the second loop taking the last dead index whose spawn succeeds
firstSpawnedFromEnd(canSpawn) ==
    IF canSpawn = {} THEN 0 ELSE CHOOSE i \in canSpawn : \A j \in canSpawn : i >= j

\* acquireProcess, second loop: with canSpawn the dead indexes whose
\* spawnProcess would succeed, the index respawned, 0 when there is none
firstSpawned(canSpawn) ==
    IF canSpawn = {} THEN 0 ELSE CHOOSE i \in canSpawn : \A j \in canSpawn : i <= j

\* the dead indexes whose spawnProcess was tried and failed
failedSpawns(canSpawn) ==
    { i \in deadIndexes : firstSpawned(canSpawn) = 0 \/ i < firstSpawned(canSpawn) }

\* the slot object at index i now
ObjAt(i) == [idx |-> i, gen |-> slots[i].gen]

\* Execute reaching the slot by its index rather than by the object it holds
CurrentAtIndex(h) == h.idx \in 1..maxWorkers

\* slot object h is still the one in ProcessPool.processes
Current(h) == slots[h.idx].gen = h.gen

\* releaseProcess setting lastUsed as well
releaseSlotTouching(o) == [o EXCEPT !.busy = FALSE, !.since = 0]

\* releaseProcess: proc.busy = false
releaseSlot(o) == [o EXCEPT !.busy = FALSE]

\* Execute marking the slot dead on a read error only
MarksDeadOnRead(kind) == kind = "read"

\* Execute marking the slot dead on a parse error too
MarksDeadOnAnyError(kind) == kind \in {"write", "read", "parse"}

\* Execute: the outcomes on which it sets proc.alive = false
MarksDead(kind) == kind \in {"write", "read"}

\* Execute: the outcome on which it sets proc.lastUsed = time.Now()
Touches(kind) == kind = "response"

\* the reaper's test with the idle time reaching the timeout
ReapableAtTimeout(o) == ~o.busy /\ o.alive /\ o.since >= idleTimeout

\* the reaper's test without the busy flag
ReapableBusy(o) == o.alive /\ o.since > idleTimeout

\* cleanupIdleProcesses: !proc.busy && proc.alive &&
\* time.Since(proc.lastUsed) > p.idleTimeout
Reapable(o) == ~o.busy /\ o.alive /\ o.since > idleTimeout

\* Execute, acquireProcess: a dispatch routine enters Execute and, under
\* the pool lock, takes the first available slot, or else respawns the
\* first dead index whose spawn succeeds (the new object replaces the old
\* one in ProcessPool.processes), or else gets "no available workers" and
\* Execute returns at once.
ExecuteAcquire ==
    /\ Cardinality(routines) < numWorkers
    /\ IF firstAvailable # 0
       THEN /\ slots' = [slots EXCEPT ![firstAvailable].busy = TRUE]
            /\ routines' = routines \cup
                   {[obj |-> ObjAt(firstAvailable), pc |-> "exchange", kind |-> ""]}
            /\ last' = [NoLast EXCEPT !.op = "acquire", !.obj = ObjAt(firstAvailable)]
       ELSE \E canSpawn \in SUBSET deadIndexes :
              /\ canSpawn # {} => Respawns < MaxRespawns
              /\ IF firstSpawned(canSpawn) = 0
                 THEN /\ last' = [NoLast EXCEPT !.op = "acquire",
                                                !.res = <<ExecError(NoAvailableWorkers)>>,
                                                !.spawnable = canSpawn,
                                                !.failed = failedSpawns(canSpawn)]
                      /\ UNCHANGED <<slots, routines>>
                 ELSE LET i == firstSpawned(canSpawn)
                          new == [spawnProcess(slots[i].gen + 1) EXCEPT !.busy = TRUE]
                      IN  /\ slots' = storeAt(slots, i, new)
                          /\ routines' = routines \cup
                                 {[obj |-> [idx |-> i, gen |-> new.gen],
                                   pc |-> "exchange", kind |-> ""]}
                          /\ last' = [NoLast EXCEPT !.op = "acquire",
                                                    !.obj = [idx |-> i, gen |-> new.gen],
                                                    !.spawnable = canSpawn,
                                                    !.failed = failedSpawns(canSpawn)]
    /\ UNCHANGED <<runVars, boot, lockVars>>

\* Execute, the exchange of a dispatch routine with the child of the slot
\* object it holds: the write, the read and the parse, with what Execute
\* sets on the object on the way; Execute is left to return.
ExecuteExchange ==
    /\ \E r \in routines, outcome \in ExchangeOutcomes :
         /\ r.pc = "exchange"
         /\ slots' = IF Current(r.obj)
                     THEN [slots EXCEPT ![r.obj.idx] =
                             [@ EXCEPT !.alive = IF MarksDead(outcome.kind) THEN FALSE ELSE @,
                                       !.since = IF Touches(outcome.kind) THEN 0 ELSE @]]
                     ELSE slots
         /\ routines' = (routines \ {r}) \cup
                           {[r EXCEPT !.pc = "returning", !.kind = outcome.kind]}
         /\ last' = [NoLast EXCEPT !.op = "exchange", !.obj = r.obj,
                                   !.kind = outcome.kind, !.res = <<outcome.res>>]
    /\ UNCHANGED <<runVars, boot, lockVars>>

\* Execute returns: the deferred releaseProcess clears busy on the slot
\* object the routine holds, which respawning may have replaced in
\* ProcessPool.processes meanwhile.
ExecuteReturn ==
    /\ \E r \in routines :
         /\ r.pc = "returning"
         /\ slots' = IF Current(r.obj)
                     THEN [slots EXCEPT ![r.obj.idx] = releaseSlot(@)]
                     ELSE slots
         /\ routines' = routines \ {r}
         /\ last' = [NoLast EXCEPT !.op = "release", !.obj = r.obj, !.kind = r.kind]
    /\ UNCHANGED <<runVars, boot, lockVars>>

\* idleCleanupLoop, a tick of its ticker: cleanupIdleProcesses, under the
\* pool lock, kills and marks dead each slot that passes the test.
Reap ==
    /\ boot.reaper
    /\ slots' = [i \in 1..maxWorkers |->
                   IF Reapable(slots[i]) THEN [slots[i] EXCEPT !.alive = FALSE]
                   ELSE slots[i]]
    /\ last' = [NoLast EXCEPT !.op = "reap",
                              !.killed = { i \in 1..maxWorkers : Reapable(slots[i]) }]
    /\ UNCHANGED <<runVars, boot, routines, lockVars>>

\* A reaper interval passes: time.Since(proc.lastUsed) grows for every
\* slot.  Execute's return and its deferred release take no time on this
\* scale.
Tick ==
    /\ \A r \in routines : r.pc # "returning"
    /\ \E i \in 1..maxWorkers : slots[i].since <= idleTimeout
    /\ slots' = [i \in 1..maxWorkers |->
                   [slots[i] EXCEPT !.since = IF @ <= idleTimeout THEN @ + 1 ELSE @]]
    /\ last' = NoLast
    /\ UNCHANGED <<runVars, boot, routines, lockVars>>

PoolInit ==
    /\ PoolAtStart
    /\ boot = Started
    /\ inputQ = <<>>
    /\ retryQ = <<>>
    /\ results = <<>>
    /\ unacked = {}
    /\ jobs = <<>>
    /\ inflight = {}
    /\ processes = [i \in 1..NumWorkers |-> [busy |-> FALSE, alive |-> TRUE]]
    /\ teardown = <<>>
    /\ returned = 0
    /\ chain = [j \in 0..MaxIds |-> NoChain]
    /\ step = NoStep
    /\ caught = {}

PoolNext ==
    \/ ExecuteAcquire
    \/ ExecuteExchange
    \/ ExecuteReturn
    \/ Reap
    \/ Tick

PoolSpec == PoolInit /\ [][PoolNext]_vars

\* ---------------------------------------------- the process pool's mutexes
\* Each routine is at the statement it runs next; a Lock is a step that
\* can be taken only while the mutex is free, and the statements from a
\* Lock to the Unlock that follows are one step.  A slot mutex belongs to
\* the PythonProcess object: a respawned object has its own.

\* the slot mutexes routine t holds
HoldsProc(t) == { h \in mu.proc : h.who = t }

\* whether the mutex of slot object o is free
ProcFree(o) == \A h \in mu.proc : h.obj # o

\* an Unlock that does not happen
procUnlockLost(held, o, t) == held

\* proc.mu.Unlock() by routine t
procUnlock(held, o, t) == held \ {[obj |-> o, who |-> t]}

\* routine t goes on to the statement at pc
GoTo(t, pc, i, o) == [thr EXCEPT ![t] = [pc |-> pc, i |-> i, obj |-> o]]

\* the statements whose next step is p.mu.Lock()
PoolLockAt == {"acquireProcess", "cleanupIdleProcesses", "Stats", "Shutdown"}

\* the loops over p.processes whose every turn starts with proc.mu.Lock()
ProcLoops == {"first loop", "second loop", "cleanup loop", "Stats loop"}

\* where a routine is once it holds the mutex of the slot of its turn
Locked(pc) ==
    IF pc = "first loop" THEN "first loop, locked"
    ELSE IF pc = "second loop" THEN "second loop, locked"
    ELSE IF pc = "cleanup loop" THEN "cleanup loop, locked"
    ELSE IF pc = "Stats loop" THEN "Stats loop, locked"
    ELSE "releaseProcess, locked"

\* where each function goes once it holds the pool lock
AfterPoolLock(pc) ==
    IF pc = "acquireProcess" THEN "first loop"
    ELSE IF pc = "cleanupIdleProcesses" THEN "cleanup loop"
    ELSE IF pc = "Stats" THEN "Stats loop"
    ELSE "Shutdown loop"

\* p.mu.Lock() at the head of acquireProcess, cleanupIdleProcesses, Stats
\* and, after close(p.shutdown), Shutdown
LockPool ==
    /\ \E t \in Threads :
         /\ thr[t].pc \in PoolLockAt
         /\ mu.pool = 0
         /\ mu' = [mu EXCEPT !.pool = t]
         /\ thr' = GoTo(t, AfterPoolLock(thr[t].pc), 1, NoObj)
    /\ UNCHANGED <<runVars, boot, poolVars>>

\* proc.mu.Lock() at the head of a turn of a loop over p.processes
LockProc ==
    /\ \E t \in Threads :
         /\ thr[t].pc \in ProcLoops
         /\ ProcFree(ObjAt(thr[t].i))
         /\ mu' = [mu EXCEPT !.proc = @ \cup {[obj |-> ObjAt(thr[t].i), who |-> t]}]
         /\ thr' = GoTo(t, Locked(thr[t].pc), thr[t].i, ObjAt(thr[t].i))
    /\ UNCHANGED <<runVars, boot, poolVars>>

\* acquireProcess, a turn of the first loop with the slot mutex held: an
\* available slot is marked busy and returned, the deferred Unlock
\* releasing the pool lock; otherwise the next turn, or the second loop
FirstLoopTurn ==
    /\ \E t \in Threads :
         LET i == thr[t].i
             o == thr[t].obj
         IN  /\ thr[t].pc = Locked("first loop")
             /\ IF Available(slots[i])
                THEN /\ slots' = [slots EXCEPT ![i].busy = TRUE]
                     /\ mu' = [pool |-> 0, proc |-> procUnlock(mu.proc, o, t)]
                     /\ thr' = GoTo(t, "exchange", 0, o)
                ELSE /\ slots' = slots
                     /\ mu' = [mu EXCEPT !.proc = procUnlock(@, o, t)]
                     /\ thr' = IF i < maxWorkers
                               THEN GoTo(t, "first loop", i + 1, NoObj)
                               ELSE GoTo(t, "second loop", 1, NoObj)
    /\ UNCHANGED <<runVars, boot, routines, last>>

\* acquireProcess, a turn of the second loop with the slot mutex held: a
\* dead slot's mutex is released and spawnProcess called; the new object
\* is marked busy, stored and returned; after a failed spawn, or on an
\* alive slot, the next turn, or the error after the last
SecondLoopTurn ==
    /\ \E t \in Threads, spawned \in BOOLEAN :
         LET i == thr[t].i
             o == thr[t].obj
             new == [spawnProcess(slots[i].gen + 1) EXCEPT !.busy = TRUE]
         IN  /\ thr[t].pc = Locked("second loop")
             /\ spawned => ~slots[i].alive /\ Respawns < MaxRespawns
             /\ IF spawned
                THEN /\ slots' = storeAt(slots, i, new)
                     /\ mu' = [pool |-> 0, proc |-> procUnlock(mu.proc, o, t)]
                     /\ thr' = GoTo(t, "exchange", 0, [idx |-> i, gen |-> new.gen])
                ELSE /\ slots' = slots
                     /\ IF i < maxWorkers
                        THEN /\ mu' = [mu EXCEPT !.proc = procUnlock(@, o, t)]
                             /\ thr' = GoTo(t, "second loop", i + 1, NoObj)
                        ELSE /\ mu' = [pool |-> 0, proc |-> procUnlock(mu.proc, o, t)]
                             /\ thr' = GoTo(t, "acquireProcess", 0, NoObj)
    /\ UNCHANGED <<runVars, boot, routines, last>>

\* Execute between acquireProcess and its return: the write, the read and
\* the parse, with the flags Execute sets on the object it holds
Exchange ==
    /\ \E t \in Threads, outcome \in ExchangeOutcomes :
         LET o == thr[t].obj
         IN  /\ thr[t].pc = "exchange"
             /\ slots' = IF Current(o)
                         THEN [slots EXCEPT ![o.idx] =
                                 [@ EXCEPT !.alive = IF MarksDead(outcome.kind) THEN FALSE ELSE @,
                                           !.since = IF Touches(outcome.kind) THEN 0 ELSE @]]
                         ELSE slots
             /\ thr' = GoTo(t, "releaseProcess", 0, o)
    /\ UNCHANGED <<runVars, boot, routines, last, mu>>

\* releaseProcess, proc.mu.Lock()
ReleaseLock ==
    /\ \E t \in Threads :
         /\ thr[t].pc = "releaseProcess"
         /\ ProcFree(thr[t].obj)
         /\ mu' = [mu EXCEPT !.proc = @ \cup {[obj |-> thr[t].obj, who |-> t]}]
         /\ thr' = GoTo(t, Locked("releaseProcess"), 0, thr[t].obj)
    /\ UNCHANGED <<runVars, boot, poolVars>>

\* releaseProcess with the slot mutex held: busy is cleared; Execute
\* returns and the routine comes back with its next Job
ReleaseTurn ==
    /\ \E t \in Threads :
         LET o == thr[t].obj
         IN  /\ thr[t].pc = Locked("releaseProcess")
             /\ slots' = IF Current(o) THEN [slots EXCEPT ![o.idx] = releaseSlot(@)]
                         ELSE slots
             /\ mu' = [mu EXCEPT !.proc = procUnlock(@, o, t)]
             /\ thr' = GoTo(t, "acquireProcess", 0, NoObj)
    /\ UNCHANGED <<runVars, boot, routines, last>>

\* cleanupIdleProcesses, a turn of its loop with the slot mutex held; how
\* long the slot was idle is left open here.  After the last turn the
\* deferred Unlock releases the pool lock and the reaper waits for its
\* next tick.
CleanupTurn ==
    /\ \E t \in Threads, idle \in BOOLEAN :
         LET i == thr[t].i
             o == thr[t].obj
         IN  /\ thr[t].pc = Locked("cleanup loop")
             /\ idle => ~slots[i].busy /\ slots[i].alive
             /\ slots' = IF idle THEN [slots EXCEPT ![i].alive = FALSE] ELSE slots
             /\ IF i < maxWorkers
                THEN /\ mu' = [mu EXCEPT !.proc = procUnlock(@, o, t)]
                     /\ thr' = GoTo(t, "cleanup loop", i + 1, NoObj)
                ELSE /\ mu' = [pool |-> 0, proc |-> procUnlock(mu.proc, o, t)]
                     /\ thr' = GoTo(t, "cleanupIdleProcesses", 0, NoObj)
    /\ UNCHANGED <<runVars, boot, routines, last>>

\* Stats, a turn of its loop with the slot mutex held
StatsTurn ==
    /\ \E t \in Threads :
         LET i == thr[t].i
             o == thr[t].obj
         IN  /\ thr[t].pc = Locked("Stats loop")
             /\ IF i < maxWorkers
                THEN /\ mu' = [mu EXCEPT !.proc = procUnlock(@, o, t)]
                     /\ thr' = GoTo(t, "Stats loop", i + 1, NoObj)
                ELSE /\ mu' = [pool |-> 0, proc |-> procUnlock(mu.proc, o, t)]
                     /\ thr' = GoTo(t, "Stats", 0, NoObj)
    /\ UNCHANGED <<runVars, boot, poolVars>>

\* Shutdown with the pool lock held: every child's input is closed and
\* the child killed and waited for; no slot mutex is taken and no flag
\* touched.  The deferred Unlock releases the pool lock.
ShutdownTurn ==
    /\ \E t \in Threads :
         /\ thr[t].pc = "Shutdown loop"
         /\ mu' = [mu EXCEPT !.pool = 0]
         /\ thr' = GoTo(t, "returned", 0, NoObj)
    /\ UNCHANGED <<runVars, boot, poolVars>>

\* The pool in use: every dispatch routine in Execute again and again, the
\* reaper at every tick, Stats called at any time, and one call of
\* Shutdown at any time.
LockInit == PoolInit

LockNext ==
    \/ LockPool
    \/ LockProc
    \/ FirstLoopTurn
    \/ SecondLoopTurn
    \/ Exchange
    \/ ReleaseLock
    \/ ReleaseTurn
    \/ CleanupTurn
    \/ StatsTurn
    \/ ShutdownTurn

LockSpec == LockInit /\ [][LockNext]_vars

\* main from its first statement to <-shutdown.  Any call may fail.
StartupInit ==
    /\ boot = Booting
    /\ inputQ = <<>>
    /\ retryQ = <<>>
    /\ results = <<>>
    /\ unacked = {}
    /\ jobs = <<>>
    /\ inflight = {}
    /\ processes = [i \in 1..NumWorkers |-> [busy |-> FALSE, alive |-> TRUE]]
    /\ teardown = <<>>
    /\ returned = 0
    /\ chain = [j \in 0..MaxIds |-> NoChain]
    /\ step = NoStep
    /\ caught = {}
    /\ slots = <<>>
    /\ routines = {}
    /\ last = NoLast
    /\ LocksAtStart

\* config.Load
LoadConfig ==
    /\ boot.pc = "config.Load"
    /\ \E ok \in BOOLEAN :
         boot' = IF ok THEN [boot EXCEPT !.pc = "Connect"]
                 ELSE Fatalf(boot, "config.Load")
    /\ UNCHANGED <<runVars, poolVars, lockVars>>

\* Connect, one turn of its loop: amqp.Dial; on success the session is
\* returned; on failure the sleep, when there is one, and after the last
\* turn the error, on which main exits
Dial ==
    /\ boot.pc = "Connect"
    /\ boot.dials < maxRetries
    /\ \E ok \in BOOLEAN :
         boot' = IF ok
                 THEN Built([boot EXCEPT !.dials = @ + 1], "conn", "NewConsumer")
                 ELSE LET b == [boot EXCEPT
                                  !.dials = @ + 1,
                                  !.sleeps = IF RetryAfter(boot.dials) THEN @ + 1 ELSE @]
                      IN  IF b.dials < maxRetries THEN b ELSE Fatalf(b, "Connect")
    /\ UNCHANGED <<runVars, poolVars, lockVars>>

\* NewConsumer: on an error it closes the channel it opened and main exits
NewConsumer ==
    /\ boot.pc = "NewConsumer"
    /\ \E ok \in BOOLEAN :
         boot' = IF ok THEN Built(boot, "consumer", "NewProducer")
                 ELSE Fatalf(boot, "NewConsumer")
    /\ UNCHANGED <<runVars, poolVars, lockVars>>

\* NewProducer: on an error it closes the channel it opened and main exits
NewProducer ==
    /\ boot.pc = "NewProducer"
    /\ \E ok \in BOOLEAN :
         boot' = IF ok THEN Built(boot, "producer", "NewProcessPool")
                 ELSE Fatalf(boot, "NewProducer")
    /\ UNCHANGED <<runVars, poolVars, lockVars>>

\* NewProcessPool, one turn of its loop: spawnProcess and the append to
\* pool.processes; after the last the reaper is started and the pool
\* returned; on an error Shutdown kills the children spawned so far and
\* main exits
NewProcessPool ==
    /\ boot.pc = "NewProcessPool"
    /\ boot.spawned < maxWorkers
    /\ \E ok \in BOOLEAN :
         /\ boot' = IF ~ok
                    THEN Fatalf([boot EXCEPT !.killed = Len(slots)], "NewProcessPool")
                    ELSE IF boot.spawned + 1 < maxWorkers
                    THEN [boot EXCEPT !.spawned = @ + 1]
                    ELSE Built([boot EXCEPT !.spawned = @ + 1, !.reaper = TRUE],
                               "processPool", "NewPool")
         /\ slots' = IF ok THEN Append(slots, spawnProcess(0)) ELSE slots
    /\ UNCHANGED <<runVars, routines, last, lockVars>>

\* NewPool and Pool.Start: the dispatch routines are started
NewPool ==
    /\ boot.pc = "NewPool"
    /\ boot' = Built(boot, "workerPool", "Consume")
    /\ UNCHANGED <<runVars, poolVars, lockVars>>

\* Consumer.Consume: on an error main exits; otherwise the forwarder is
\* started and main waits for the signal
StartConsume ==
    /\ boot.pc = "Consume"
    /\ \E ok \in BOOLEAN :
         boot' = IF ok THEN Built(boot, "consume", "ready")
                 ELSE Fatalf(boot, "Consume")
    /\ UNCHANGED <<runVars, poolVars, lockVars>>

StartupNext ==
    \/ LoadConfig
    \/ Dial
    \/ NewConsumer
    \/ NewProducer
    \/ NewProcessPool
    \/ NewPool
    \/ StartConsume

StartupSpec == StartupInit /\ [][StartupNext]_vars

\* The process pool from main's call of NewProcessPool on, the broker
\* session, the consumer and the producer being built: the reaper runs
\* from the moment NewProcessPool started it, and Jobs reach the dispatch
\* routines once Consumer.Consume returned.
FleetInit ==
    /\ boot = [Booting EXCEPT !.pc = "NewProcessPool",
                              !.built = <<"conn", "consumer", "producer">>,
                              !.dials = 1]
    /\ inputQ = <<>>
    /\ retryQ = <<>>
    /\ results = <<>>
    /\ unacked = {}
    /\ jobs = <<>>
    /\ inflight = {}
    /\ processes = [i \in 1..NumWorkers |-> [busy |-> FALSE, alive |-> TRUE]]
    /\ teardown = <<>>
    /\ returned = 0
    /\ chain = [j \in 0..MaxIds |-> NoChain]
    /\ step = NoStep
    /\ caught = {}
    /\ slots = <<>>
    /\ routines = {}
    /\ last = NoLast
    /\ LocksAtStart

FleetNext ==
    \/ NewProcessPool
    \/ NewPool
    \/ StartConsume
    \/ boot.pc # "exited" /\ Reap
    \/ boot.pc # "exited" /\ boot.reaper /\ Tick
    \/ boot.pc = "ready" /\ ExecuteAcquire
    \/ boot.pc = "ready" /\ ExecuteExchange
    \/ boot.pc = "ready" /\ ExecuteReturn

FleetSpec == FleetInit /\ [][FleetNext]_vars

\* The program under a burst: more plain requests are queued than there
\* are dispatch routines, and each is delivered once.
Burst == [k \in 1..BurstSize |-> InputMessage(k, OkPath, FirstTime)]

BurstInit ==
    /\ inputQ = Burst
    /\ retryQ = <<>>
    /\ results = <<>>
    /\ unacked = {}
    /\ jobs = <<>>
    /\ inflight = {}
    /\ processes = [i \in 1..NumWorkers |-> [busy |-> FALSE, alive |-> TRUE]]
    /\ teardown = <<>>
    /\ returned = 0
    /\ chain = [j \in 0..MaxIds |-> NoChain]
    /\ step = NoStep
    /\ caught = {}
    /\ boot = Started
    /\ PoolAtStart

BurstConsume ==
    /\ NumDeliveries < BurstSize
    /\ ConsumeDelivery

BurstNext ==
    \/ BurstConsume
    \/ Expire
    \/ TakeJob
    \/ Complete
    \/ cleanupIdleProcesses

BurstSpec == BurstInit /\ [][BurstNext]_vars

\* The program run to the end of a retry chain.  The run starts with one
\* request of any kind on the input queue (alone or behind a body that is
\* not JSON); deliveries are not capped (a chain is finite, at most
\* MaxPublishFailures publishes fail), the broker keeps delivering while
\* there is credit, the retry queue expires every message, a dispatch
\* routine that can receive a Job does, and every exchange with a child
\* ends.  The reaper may run or not.
LiveInit ==
    /\ Init
    /\ Cardinality({ i \in 1..Len(inputQ) : inputQ[i].body.wellformed }) <= 1

LiveNext ==
    \/ ConsumeDelivery
    \/ Expire
    \/ TakeJob
    \/ Complete
    \/ cleanupIdleProcesses

LiveSpec ==
    /\ LiveInit
    /\ [][LiveNext]_vars
    /\ WF_vars(ConsumeDelivery)
    /\ WF_vars(Expire)
    /\ WF_vars(TakeJob)
    /\ WF_vars(Complete)

\* ------------------------------------------------------------------- claims
JobIds == 1..MaxJobs

\* the step just taken is a run of processJob
StepIsProcessJob == step.op = "processJob"

\* the publish of the step just taken returned an error
StepPublishFailed ==
    \E i \in 1..Len(step.calls) : step.calls[i].kind = "publish" /\ ~step.calls[i].ok

\* the step just taken nacked its delivery with requeue
StepRequeued ==
    \E i \in 1..Len(step.calls) : step.calls[i] = Nack(TRUE)

\* the deliveries of job j that the broker holds unsettled
Unsettled(j) == { u \in unacked : u.tag.job = j }

\* C1: every run of processJob makes exactly one publish attempt and after
\* it exactly one settlement, an ack or a nack and never both; every
\* delivery handed to the pool is settled once or is still held by the
\* Job channel or by a dispatch routine, so none is dropped unsettled.
C1_OnePublishOneSettle ==
    /\ StepIsProcessJob =>
          /\ Len(step.calls) = 2
          /\ step.calls[1].kind = "publish"
          /\ step.calls[2].kind \in {"ack", "nack"}
    /\ \A j \in JobIds :
          /\ chain[j].pubs = chain[j].acks + chain[j].nacks
          /\ Len(chain[j].seen) =
                chain[j].acks + chain[j].nacks + Cardinality(Unsettled(j))
    /\ \A u \in unacked :
          \/ \E i \in 1..Len(jobs) : jobs[i].Delivery = u.tag
          \/ \E r \in inflight : r.job.Delivery = u.tag

\* a job one delivery of which was nacked and the next acked
C1_Witness ==
    /\ StepIsProcessJob
    /\ chain[step.tag.job].nacks = 1
    /\ chain[step.tag.job].acks = 1
    /\ Unsettled(step.tag.job) = {}

\* C2: processJob nacks its delivery with requeue exactly when the publish
\* it attempted for that delivery returned an error, and acks it whenever
\* the publish succeeded, whichever branch made the publish.
C2_RequeueIffPublishFailed ==
    StepIsProcessJob =>
        /\ StepRequeued <=> StepPublishFailed
        /\ ~StepPublishFailed => Settles(step.calls) = <<Ack>>

\* a successful transcription whose result could not be published
C2_Witness ==
    /\ StepIsProcessJob
    /\ step.attempt # None
    /\ ~Failed(step.attempt[1])
    /\ StepPublishFailed
    /\ StepRequeued

ResultsOf(j) == SelectSeq(results, LAMBDA b : b.attachment_id = j)

\* a message of job j waits on queue q
Queued(q, j) ==
    \E i \in 1..Len(q) : q[i].body.wellformed /\ q[i].body.attachment_id = j

\* the retry chain of job j has ended: it was delivered, and no message of
\* it is left on the input queue, in the delay ring or unsettled
ChainEnded(j) ==
    /\ chain[j].seen # <<>>
    /\ ~Queued(inputQ, j)
    /\ ~Queued(retryQ, j)
    /\ Unsettled(j) = {}

\* C4: as long as no publish for a decoded job has failed, its retry chain
\* has put at most one envelope on the result queue, and exactly one once
\* the chain has ended.
C4_ExactlyOneResultPerChain ==
    \A j \in JobIds :
        chain[j].failedPubs = 0 =>
            /\ Len(ResultsOf(j)) <= 1
            /\ ChainEnded(j) => Len(ResultsOf(j)) = 1

\* a chain that went through the delay ring and has ended
C4_Witness ==
    \E j \in JobIds :
        /\ chain[j].failedPubs = 0
        /\ Len(chain[j].seen) >= 2
        /\ ChainEnded(j)
        /\ Len(ResultsOf(j)) = 1

\* C5 as stated: no job causes more than MaxRetries + 1 calls of Execute.
C5_AsStated ==
    \A j \in JobIds : chain[j].execs <= MaxRetries + 1

Max0(n) == IF n < 0 THEN 0 ELSE n

\* C5: a job first delivered with retry_count r causes at most
\* max(MaxRetries - r, 0) + 1 calls of Execute, and one more for each of
\* its deliveries that was nacked with requeue.
C5_RetryBound ==
    \A j \in JobIds :
        chain[j].seen # <<>> =>
            chain[j].execs <=
                Max0(MaxRetries - chain[j].seen[1].rc) + 1 + chain[j].nacks

\* a fresh job on its fourth call of Execute after one requeue
C5_Witness ==
    \E j \in JobIds :
        /\ chain[j].seen # <<>>
        /\ chain[j].seen[1].rc = 0
        /\ chain[j].nacks = 1
        /\ chain[j].execs = MaxRetries + 2

\* C6 as stated: each delivery of a job carries a retry_count strictly
\* greater than the one before, requeued deliveries included.
C6_AsStated ==
    \A j \in JobIds :
        \A i \in 1..(Len(chain[j].seen) - 1) :
            chain[j].seen[i + 1].rc > chain[j].seen[i].rc

\* C6: the retry_count of successive deliveries of a job never decreases:
\* a delivery that came through the delay ring carries the previous count
\* plus one, a delivery requeued after a nack carries the same count again.
C6_RetryMonotone ==
    \A j \in JobIds :
        \A i \in 1..(Len(chain[j].seen) - 1) :
            /\ chain[j].seen[i + 1].via \in {"ring", "requeue"}
            /\ chain[j].seen[i + 1].via = "ring" =>
                  chain[j].seen[i + 1].rc = chain[j].seen[i].rc + 1
            /\ chain[j].seen[i + 1].via = "requeue" =>
                  chain[j].seen[i + 1].rc = chain[j].seen[i].rc

\* a job delivered through the ring and then once more after a requeue
C6_Witness ==
    \E j \in JobIds :
        /\ Len(chain[j].seen) >= 3
        /\ chain[j].seen[2].via = "ring"
        /\ chain[j].seen[3].via = "requeue"

\* the step just taken is a run of processJob whose attempt failed
\* transiently: Execute returned an error or a response with success=false
StepFailedAttempt ==
    /\ StepIsProcessJob
    /\ step.attempt # None
    /\ Failed(step.attempt[1])

\* the one envelope processJob tried to publish in the step just taken
StepEnvelope == Publishes(step.calls)[1]

\* envelope e is request's retry envelope: sent to the retry exchange, the
\* request unchanged but for retry_count, which the body and the
\* x-retry-count header both give as the delivered count plus one
IsRetryEnvelopeOf(e, request) ==
    /\ e.exchange = RetryExchange
    /\ e.key = RetryRoutingKey
    /\ ~Unmarshal(e.body).err
    /\ Unmarshal(e.body).request[1] =
          [request EXCEPT !.RetryCount = request.RetryCount + 1]
    /\ e.headers.xRetryCount = Some([type |-> "int32", val |-> request.RetryCount + 1])

\* envelope e is an error result for request with this error_message
IsErrorResultOf(e, request, message) ==
    /\ e.exchange = ResultsExchange
    /\ e.key = ResultsRoutingKey
    /\ e.body.attachment_id = request.AttachmentID
    /\ ~e.body.success
    /\ ErrorMessageOf(e.body) = message

\* C7 as stated: a transient failure below MaxRetries always ends with one
\* retry envelope published, no result envelope, and an ack.
C7_AsStated ==
    (StepFailedAttempt /\ step.request[1].RetryCount < MaxRetries) =>
        /\ Len(Routed(step.calls, RetryQueue)) = 1
        /\ IsRetryEnvelopeOf(StepEnvelope, step.request[1])
        /\ Routed(step.calls, ResultsQueue) = <<>>
        /\ Settles(step.calls) = <<Ack>>

\* C7: after a transient failure with retry_count below MaxRetries the one
\* envelope processJob tries to publish is the retry envelope, with body
\* and header count both the delivered count plus one, and no result
\* envelope; when the publish succeeds that envelope is queued and the
\* delivery acked, when it fails nothing is queued and the delivery is
\* nacked with requeue.
C7_RetryEnvelope ==
    (StepFailedAttempt /\ step.request[1].RetryCount < MaxRetries) =>
        /\ Len(Publishes(step.calls)) = 1
        /\ IsRetryEnvelopeOf(StepEnvelope, step.request[1])
        /\ Routed(step.calls, ResultsQueue) = <<>>
        /\ IF StepEnvelope.ok
           THEN /\ Len(Routed(step.calls, RetryQueue)) = 1
                /\ Settles(step.calls) = <<Ack>>
           ELSE /\ Routed(step.calls, RetryQueue) = <<>>
                /\ Settles(step.calls) = <<Nack(TRUE)>>

\* the second try of a job failed and its retry was published
C7_Witness ==
    /\ StepFailedAttempt
    /\ step.request[1].RetryCount = 1
    /\ StepEnvelope.ok
    /\ Len(Routed(step.calls, RetryQueue)) = 1

\* C8 as stated: a transient failure at or above MaxRetries always ends with
\* one terminal error result carrying that attempt's message, no retry
\* envelope, and an ack.
C8_AsStated ==
    (StepFailedAttempt /\ step.request[1].RetryCount >= MaxRetries) =>
        /\ Routed(step.calls, RetryQueue) = <<>>
        /\ Len(Routed(step.calls, ResultsQueue)) = 1
        /\ IsErrorResultOf(StepEnvelope, step.request[1], FailureText(step.attempt[1]))
        /\ Settles(step.calls) = <<Ack>>

\* C8: after a transient failure with retry_count at or above MaxRetries
\* the one envelope processJob tries to publish is an error result whose
\* error_message is the message of that attempt, never a retry envelope;
\* when the publish succeeds it is queued and the delivery acked, when it
\* fails nothing is queued and the delivery is nacked with requeue.
C8_TerminalError ==
    (StepFailedAttempt /\ step.request[1].RetryCount >= MaxRetries) =>
        /\ Len(Publishes(step.calls)) = 1
        /\ IsErrorResultOf(StepEnvelope, step.request[1], FailureText(step.attempt[1]))
        /\ Routed(step.calls, RetryQueue) = <<>>
        /\ IF StepEnvelope.ok
           THEN /\ Len(Routed(step.calls, ResultsQueue)) = 1
                /\ Settles(step.calls) = <<Ack>>
           ELSE /\ Routed(step.calls, ResultsQueue) = <<>>
                /\ Settles(step.calls) = <<Nack(TRUE)>>

\* the last try of a job failed on a worker response and was reported
C8_Witness ==
    /\ StepFailedAttempt
    /\ step.request[1].RetryCount = MaxRetries
    /\ ~step.attempt[1].err
    /\ StepEnvelope.ok
    /\ Len(Routed(step.calls, ResultsQueue)) = 1

Min(a, b) == IF a < b THEN a ELSE b

\* job j was first delivered fresh with retry_count 0, no publish for it
\* has failed, and every attempt made for it so far has failed
OnlyFailures(j) ==
    /\ chain[j].seen # <<>>
    /\ chain[j].seen[1] = [rc |-> 0, via |-> "fresh"]
    /\ chain[j].failedPubs = 0
    /\ chain[j].fails >= 1
    /\ chain[j].fails = chain[j].acks

\* C9: for a job first delivered with retry_count 0 whose attempts all
\* fail while every publish succeeds, the first failure publishes a retry
\* with count 1, the second a retry with count 2, the third no retry but
\* the one terminal error result, whose error_message is the message of
\* that third failure; there is no fourth attempt.
C9_RetryExhaustion ==
    \A j \in JobIds :
        OnlyFailures(j) =>
            /\ chain[j].fails <= MaxRetries + 1
            /\ chain[j].retries = SubSeq(<<1, 2>>, 1, Min(chain[j].fails, 2))
            /\ Len(ResultsOf(j)) = (IF chain[j].fails = 3 THEN 1 ELSE 0)
            /\ (chain[j].fails = 3 /\ StepIsProcessJob /\ step.tag.job = j) =>
                  /\ ~ResultsOf(j)[1].success
                  /\ ErrorMessageOf(ResultsOf(j)[1]) = FailureText(step.attempt[1])

\* the third failure of such a job has just been reported
C9_Witness ==
    /\ StepFailedAttempt
    /\ OnlyFailures(step.tag.job)
    /\ chain[step.tag.job].fails = 3
    /\ chain[step.tag.job].retries = <<1, 2>>
    /\ step.attempt[1].err

\* the audio path of the job of the step just taken
StepPath == step.request[1].AudioFilePath

\* C10 as stated: a path that is not an existing regular file always ends
\* with the error result "Audio file not found: <path>" and an ack, with
\* no call of Execute and no retry.
C10_AsStated ==
    (StepIsProcessJob /\ Stat(StepPath) # "file") =>
        /\ step.attempt = None
        /\ Routed(step.calls, RetryQueue) = <<>>
        /\ Len(Routed(step.calls, ResultsQueue)) = 1
        /\ IsErrorResultOf(StepEnvelope, step.request[1],
                           <<AudioFileNotFound>> \o StepPath)
        /\ Settles(step.calls) = <<Ack>>

\* C10: for a path that os.Stat cannot find (the empty path included) or
\* that is a directory, whatever the retry_count, Execute is never called
\* and the one envelope processJob tries to publish is the error result
\* "Audio file not found: <path>", never a retry; when the publish
\* succeeds it is queued and the delivery acked, when it fails nothing is
\* queued and the delivery is nacked with requeue.
C10_MissingFile ==
    (StepIsProcessJob /\ Stat(StepPath) \in {"err", "dir"}) =>
        /\ step.attempt = None
        /\ chain[step.tag.job].execs = 0
        /\ Len(Publishes(step.calls)) = 1
        /\ IsErrorResultOf(StepEnvelope, step.request[1],
                           <<AudioFileNotFound>> \o StepPath)
        /\ Routed(step.calls, RetryQueue) = <<>>
        /\ IF StepEnvelope.ok
           THEN /\ Len(Routed(step.calls, ResultsQueue)) = 1
                /\ Settles(step.calls) = <<Ack>>
           ELSE /\ Routed(step.calls, ResultsQueue) = <<>>
                /\ Settles(step.calls) = <<Nack(TRUE)>>

\* a directory sent with retry_count 2 was answered and acked
C10_Witness ==
    /\ StepIsProcessJob
    /\ StepPath = DirPath
    /\ step.request[1].RetryCount = MaxRetries
    /\ StepEnvelope.ok
    /\ Settles(step.calls) = <<Ack>>

\* C11 as stated: every job whose extension is outside the supported set is
\* answered with the error "Unsupported audio format", without a call of
\* Execute and without a retry.
C11_AsStated ==
    (StepIsProcessJob /\ ~ValidateAudioExtension(StepPath)) =>
        /\ step.attempt = None
        /\ chain[step.tag.job].execs = 0
        /\ chain[step.tag.job].retries = <<>>
        /\ Len(Publishes(step.calls)) = 1
        /\ IsErrorResultOf(StepEnvelope, step.request[1], <<UnsupportedAudioFormat>>)
        /\ StepEnvelope.ok => Len(ResultsOf(step.tag.job)) = 1

\* C11: a job whose path names an existing file that is not a directory
\* and whose extension, lower-cased, is outside the supported set is
\* answered with the error "Unsupported audio format", without a call of
\* Execute and without a retry; once that publish succeeds the job has
\* exactly one result.  (A path that fails the existence check is answered
\* "Audio file not found" whatever its extension.)
C11_UnsupportedFormat ==
    (StepIsProcessJob /\ FileExists(StepPath) /\ ~ValidateAudioExtension(StepPath)) =>
        /\ step.attempt = None
        /\ chain[step.tag.job].execs = 0
        /\ chain[step.tag.job].retries = <<>>
        /\ Len(Publishes(step.calls)) = 1
        /\ IsErrorResultOf(StepEnvelope, step.request[1], <<UnsupportedAudioFormat>>)
        /\ StepEnvelope.ok => Len(ResultsOf(step.tag.job)) = 1

\* "/a/x.xyz" was answered and acked
C11_Witness ==
    /\ StepIsProcessJob
    /\ StepPath = XyzPath
    /\ StepEnvelope.ok
    /\ Settles(step.calls) = <<Ack>>
    /\ Len(ResultsOf(step.tag.job)) = 1

\* the Jobs handed to the dispatch pool whose delivery is not settled yet:
\* those waiting in the Job channel and those being processed
PendingJobs ==
    { jobs[i] : i \in 1..Len(jobs) } \cup { r.job : r \in inflight }

\* the message the broker delivered under tag
Delivered(tag) == (CHOOSE u \in unacked : u.tag = tag).msg

\* C12: the retry_count of a Job handed to the dispatch pool is the
\* x-retry-count header when the delivery has it as an int32 or int64,
\* whatever the payload says; the payload's retry_count when there is no
\* such header; 0 when there is neither.  A job that arrives with payload
\* 0 and header 2 counts as 2, and a job that arrives at MaxRetries or
\* above is never retried.
C12_HeaderWins ==
    /\ \A job \in PendingJobs :
          LET msg == Delivered(job.Delivery)
              header == msg.headers.xRetryCount
              payload == msg.body.retry_count
          IN  /\ (header # None /\ header[1].type \in {"int32", "int64"}) =>
                    job.Request.RetryCount = header[1].val
              /\ (header = None /\ payload # None) =>
                    job.Request.RetryCount = payload[1]
              /\ (header = None /\ payload = None) =>
                    job.Request.RetryCount = 0
    /\ \A j \in JobIds :
          (chain[j].seen # <<>> /\ chain[j].seen[1].rc >= MaxRetries) =>
              chain[j].retries = <<>>

\* a delivery with payload 0 and header int32 2 is being processed as 2
C12_Witness ==
    \E r \in inflight :
        /\ Delivered(r.job.Delivery).body.retry_count = Some(0)
        /\ Delivered(r.job.Delivery).headers.xRetryCount =
              Some([type |-> "int32", val |-> 2])
        /\ r.job.Request.RetryCount = 2

\* C13: a delivery whose body does not decode is nacked without requeue
\* and nothing else: no Job for it reaches the Job channel or a dispatch
\* routine, nothing is published for it, it holds no prefetch credit and
\* it never comes back, so the consumer goes on with the next delivery.
C13_UndecodableRejected ==
    /\ step.op = "Consume" =>
          /\ step.tag.job = 0
          /\ step.calls = <<Nack(FALSE)>>
    /\ chain[0].pubs = 0
    /\ chain[0].execs = 0
    /\ chain[0].acks = 0
    /\ chain[0].nacks = Len(chain[0].seen)
    /\ Len(chain[0].seen) <= 1
    /\ Unsettled(0) = {}
    /\ \A job \in PendingJobs : job.Delivery.job # 0
    /\ \A i \in 1..Len(results) : results[i].attachment_id # 0
    /\ \A i \in 1..Len(inputQ) : ~inputQ[i].body.wellformed => ~inputQ[i].redelivered

\* the request that followed an undecodable body has been handed to the pool
C13_Witness ==
    /\ chain[0].nacks = 1
    /\ \E job \in PendingJobs : job.Delivery.job = 1
    /\ inputQ = <<>>

\* the retry envelopes in the broker: those waiting in the delay ring and
\* those the ring has put back on the input queue
RetryEnvelopesQueued ==
    { retryQ[i] : i \in 1..Len(retryQ) }
    \cup { inputQ[i] : i \in { k \in 1..Len(inputQ) : inputQ[k].headers.xDeath } }

\* C14 as stated: every result envelope carries the attachment_id and the
\* import_batch_id of the request it answers, and every retry envelope
\* carries that request's attachment_id, import_batch_id and language.
C14_Echo ==
    /\ \A i \in 1..Len(results) :
          /\ results[i].attachment_id \in JobIds
          /\ chain[results[i].attachment_id].seen # <<>>
          /\ results[i].import_batch_id = ImportBatchIdOf(results[i].attachment_id)
    /\ \A e \in RetryEnvelopesQueued :
          /\ e.body.attachment_id \in JobIds
          /\ chain[e.body.attachment_id].seen # <<>>
          /\ e.body.import_batch_id = ImportBatchIdOf(e.body.attachment_id)
          /\ e.body.language = LanguageOf(e.body.attachment_id)

\* C15: under LiveSpec's fairness, every decoded delivery of a job leads
\* to a terminal outcome of that job: a success or terminal-error result
\* published and its delivery acked.
C15_AtLeastOnce ==
    \A j \in JobIds : (chain[j].seen # <<>>) ~> (chain[j].termAcks >= 1)

\* a job reached its terminal outcome after a retry and a requeue
C15_Witness ==
    \E j \in JobIds :
        /\ chain[j].termAcks = 1
        /\ chain[j].nacks >= 1
        /\ Len(chain[j].retries) = MaxRetries
        /\ ChainEnded(j)

\* the messages of job j on queue q that satisfy Test
Count(q, j, Test(_)) ==
    Cardinality({ i \in 1..Len(q) :
                    /\ q[i].body.wellformed
                    /\ q[i].body.attachment_id = j
                    /\ Test(q[i]) })

\* the retry_count of the deliveries of job j that came through the ring
RingCounts(j) ==
    LET ring == SelectSeq(chain[j].seen, LAMBDA d : d.via = "ring")
    IN  [i \in 1..Len(ring) |-> ring[i].rc]

\* C16: a retried job comes back to the input queue only by expiring from
\* the retry queue.  processJob publishes to the results and the retry
\* exchange only, never to the input exchange; the retry queue dead-letters
\* to the input exchange with the input routing key; every retry envelope
\* published is in the retry queue, or on the input queue after expiring
\* there, or was delivered from there; and the deliveries that came
\* through the ring carry the x-retry-count values that were published,
\* in order.
C16_OnlyThroughTheRing ==
    /\ StepIsProcessJob =>
          /\ \A i \in 1..Len(step.calls) :
                step.calls[i].kind = "publish" =>
                   /\ step.calls[i].exchange # MainExchange
                   /\ step.calls[i].headers.xRetryCount # None =>
                         /\ step.calls[i].exchange = RetryExchange
                         /\ step.calls[i].key = RetryRoutingKey
          /\ Routed(step.calls, MainQueue) = <<>>
    /\ Route(RetryDeadLetterExchange, RetryDeadLetterRoutingKey) = {MainQueue}
    /\ \A j \in JobIds :
          /\ Len(chain[j].retries) =
                Count(retryQ, j, LAMBDA m : TRUE)
                + Count(inputQ, j, LAMBDA m : m.headers.xDeath /\ ~m.redelivered)
                + Len(RingCounts(j))
          /\ RingCounts(j) = SubSeq(chain[j].retries, 1, Len(RingCounts(j)))
          /\ Count(inputQ, j, LAMBDA m : ~m.headers.xDeath /\ ~m.redelivered)
                <= (IF chain[j].seen = <<>> THEN 1 ELSE 0)
    /\ \A i \in 1..Len(inputQ) :
          inputQ[i].headers.xDeath =>
              /\ inputQ[i].headers.xRetryCount # None
              /\ inputQ[i].headers.xRetryCount[1].val
                    = Unmarshal(inputQ[i].body).request[1].RetryCount

\* a retry came back through the ring and was delivered with its count
C16_Witness ==
    \E j \in JobIds :
        /\ RingCounts(j) = <<1, 2>>
        /\ chain[j].retries = <<1, 2>>
        /\ retryQ = <<>>

\* the deliveries the orchestrator holds: Jobs buffered in the channel
\* and Jobs in processing
Held == { jobs[i].Delivery : i \in 1..Len(jobs) } \cup { r.job.Delivery : r \in inflight }

\* C18: backpressure.  With the prefetch equal to the number of dispatch
\* routines, the deliveries not settled are at most NumWorkers, they are
\* the Jobs buffered in the channel and the Jobs in processing, and the
\* Job channel holds at most 2 * NumWorkers Jobs (in fact at most
\* NumWorkers); the dispatch routines in processing are at most NumWorkers.
C18_Backpressure ==
    /\ Cardinality(unacked) <= NumWorkers
    /\ { u.tag : u \in unacked } = Held
    /\ Len(jobs) + Cardinality(inflight) = Cardinality(unacked)
    /\ Len(jobs) <= 2 * NumWorkers
    /\ Cardinality(inflight) <= NumWorkers

\* the prefetch credit is used up while a request still waits on the queue
C18_Witness ==
    /\ Cardinality(unacked) = NumWorkers
    /\ inputQ # <<>>
    /\ ~Head(inputQ).redelivered
    /\ ~Head(inputQ).headers.xDeath
    /\ inflight # {}

\* the step just taken tried to publish a retry envelope and the publish
\* returned an error
StepRetryPublishFailed ==
    /\ StepIsProcessJob
    /\ Publishes(step.calls) # <<>>
    /\ StepEnvelope.exchange = RetryExchange
    /\ ~StepEnvelope.ok

\* C17: when the publish of a retry envelope fails, processJob makes no
\* other publish for that delivery and nacks it with requeue: nothing is
\* queued, no result exists for the job, and the message is back at the
\* head of the input queue, marked redelivered.
C17_FailedRetryPublish ==
    StepRetryPublishFailed =>
        /\ step.calls = <<StepEnvelope, Nack(TRUE)>>
        /\ IsRetryEnvelopeOf(StepEnvelope, step.request[1])
        /\ Routed(step.calls, ResultsQueue) = <<>>
        /\ Routed(step.calls, RetryQueue) = <<>>
        /\ ResultsOf(step.tag.job) = <<>>
        /\ chain[step.tag.job].nresults = 0
        /\ inputQ # <<>>
        /\ Head(inputQ).redelivered
        /\ Head(inputQ).body.wellformed
        /\ Head(inputQ).body.attachment_id = step.tag.job
        /\ ~\E u \in unacked : u.tag = step.tag

\* the retry of a first failure could not be published
C17_Witness ==
    /\ StepRetryPublishFailed
    /\ StepFailedAttempt
    /\ step.request[1].RetryCount = 0
    /\ chain[step.tag.job].nacks = 1

\* teardown call a is made before b: b is never made without a before it
Precedes(a, b) ==
    \A j \in 1..Len(teardown) :
        teardown[j] = b => \E i \in 1..(j - 1) : teardown[i] = a

\* C19 as stated: after the signal the consumer channel is closed first,
\* then the Job channel, then the dispatch routines have returned, then
\* the subprocess pool is shut down, then the producer channel is closed,
\* then the broker session.
C19_AsStated ==
    /\ Precedes("consumer.Close", "close(p.jobs)")
    /\ Precedes("close(p.jobs)", "workerPool.Shutdown")
    /\ Precedes("workerPool.Shutdown", "processPool.Shutdown")
    /\ Precedes("processPool.Shutdown", "producer.Close")
    /\ Precedes("producer.Close", "conn.Close")
    /\ "workerPool.Shutdown" \in { teardown[i] : i \in 1..Len(teardown) } =>
           returned = NumWorkers

\* a delivery is held unsettled by the broker
Unacked(tag) == \E u \in unacked : u.tag = tag

C19_Panic ==
    /\ Done("panic")
    /\ caught # {}

\* the sequence s last to first
Reverse(s) == [i \in 1..Len(s) |-> s[Len(s) + 1 - i]]

\* C21 as stated: when startup fails the process exits with a non-zero
\* code after closing everything it had built, last built first.
C21_AsStated ==
    boot.failed # <<>> =>
        /\ boot.exit # <<>>
        /\ boot.exit[1] # 0
        /\ boot.closed = Reverse(boot.built)

\* C21, the case: Consumer.Consume failed and main exited with the
\* session, both channels, the children and the dispatch routines left as
\* they were
C21_Witness ==
    /\ boot.failed = <<"Consume">>
    /\ boot.exit = <<1>>
    /\ Len(boot.built) = 5
    /\ boot.closed = <<>>

\* C22: Connect dials at most maxRetries times.  It returns the session at
\* the first dial that succeeds, having slept once after each dial before
\* it; it returns the error after maxRetries failed dials, having slept
\* after each but the last.
C22_ConnectBounded ==
    /\ boot.dials <= maxRetries
    /\ boot.sleeps <= maxRetries - 1
    /\ boot.pc = "Connect" => boot.sleeps = boot.dials
    /\ (boot.built # <<>>) =>
          /\ boot.built[1] = "conn"
          /\ boot.dials >= 1
          /\ boot.sleeps = boot.dials - 1
    /\ boot.failed = <<"Connect">> =>
          /\ boot.built = <<>>
          /\ boot.dials = maxRetries
          /\ boot.sleeps = maxRetries - 1
    /\ (boot.failed # <<>> /\ boot.failed # <<"Connect">> /\ boot.failed # <<"config.Load">>) =>
          boot.built # <<>>

\* every dial failed
C22_Witness ==
    /\ boot.failed = <<"Connect">>
    /\ boot.dials = maxRetries
    /\ boot.sleeps = maxRetries - 1

\* the dispatch routines that hold slot object h
Holders(h) == { r \in routines : r.obj = h }

\* C23: no concurrent slot use.  Whatever the dispatch routines, the reaper
\* and the respawns do, a slot object is held by at most one routine at a
\* time: the object in ProcessPool.processes is busy exactly when a
\* routine holds it, and an object a routine holds after a respawn took
\* its place is held by that routine alone.
C23_NoConcurrentSlotUse ==
    /\ \A r1, r2 \in routines : r1.obj = r2.obj => r1 = r2
    /\ \A i \in 1..maxWorkers : slots[i].busy <=> Holders(ObjAt(i)) # {}
    /\ \A r \in routines :
          /\ r.obj.idx \in 1..maxWorkers
          /\ r.obj.gen <= slots[r.obj.idx].gen
    /\ Cardinality(routines) <= numWorkers

\* two routines hold slot objects of the same index at once: the first
\* object failed and was replaced by a respawn before its release
C23_Witness ==
    \E r1, r2 \in routines :
        /\ r1.obj.idx = r2.obj.idx
        /\ r1.obj.gen < r2.obj.gen
        /\ r1.pc = "returning"
        /\ r2.pc = "exchange"

\* the slot object the step just taken was about, as it is now in
\* ProcessPool.processes
LastSlot == slots[last.obj.idx]

\* C24: a slot whose alive flag is false is never returned by acquire and
\* never receives a request.  The object acquireProcess returns is alive
\* and busy when it returns; a routine about to write its request holds
\* an object that is alive, busy and in ProcessPool.processes; and the
\* reaper marks no held object dead.
C24_AcquiredIsAlive ==
    /\ (last.op = "acquire" /\ last.obj # NoObj) =>
          /\ Current(last.obj)
          /\ LastSlot.alive
          /\ LastSlot.busy
          /\ \E r \in routines : r.obj = last.obj /\ r.pc = "exchange"
    /\ \A r \in routines :
          r.pc = "exchange" =>
              /\ Current(r.obj)
              /\ slots[r.obj.idx].alive
              /\ slots[r.obj.idx].busy
    /\ last.op = "reap" =>
          \A i \in last.killed : Holders(ObjAt(i)) = {} /\ ~slots[i].busy

\* the reaper killed an idle slot and spared a slot as old that a routine
\* holds in an exchange
C24_Witness ==
    /\ last.op = "reap"
    /\ last.killed # {}
    /\ \E r \in routines :
          /\ r.pc = "exchange"
          /\ slots[r.obj.idx].since > idleTimeout
          /\ slots[r.obj.idx].alive

\* processJob sends Execute's result res through handleFailure: whatever
\* the request, one envelope is published, the retry envelope while
\* retry_count is below MaxRetries and the error result with res's message
\* from there on
ThroughHandleFailure(res) ==
    /\ res.err
    /\ \A rc \in 0..MaxRetries :
          LET request == [AttachmentID |-> 1, AudioFilePath |-> OkPath,
                          Language |-> "es", RetryCount |-> rc]
              calls == processJobFinish(request, res, TRUE)
          IN  /\ Len(Publishes(calls)) = 1
              /\ IF rc < MaxRetries
                 THEN IsRetryEnvelopeOf(Publishes(calls)[1], request)
                 ELSE IsErrorResultOf(Publishes(calls)[1], request, res.errText)

\* the exchange of the step just taken failed on the write or on the read
LastIOError ==
    /\ last.op = "exchange"
    /\ last.kind \in {"write", "read"}

\* C25 as stated: after a write or read failure on a slot, an acquisition
\* that finds no alive idle slot, and whose every spawn would succeed,
\* respawns that index in place and returns the new object.
C25_AsStated ==
    [][ (/\ LastIOError
         /\ last'.op = "acquire"
         /\ firstAvailable = 0
         /\ last'.spawnable = deadIndexes) =>
            last'.obj = [idx |-> last.obj.idx, gen |-> last.obj.gen + 1] ]_vars

\* C25: a write or read failure marks the slot dead and Execute returns an
\* error that processJob sends through handleFailure.  An acquisition
\* that finds no alive idle slot tries the dead indexes in order and
\* respawns in place the first whose spawn succeeds, returning the new
\* object alive and busy; the failed slot is the one respawned when its
\* spawn succeeds and no dead index before it respawns; when no spawn
\* succeeds every slot stays as it is and the error is "no available
\* workers".
C25_IOErrorThenRespawn ==
    [][ /\ LastIOError' =>
              /\ Current(last'.obj)
              /\ ~LastSlot'.alive
              /\ LastSlot'.busy
              /\ ThroughHandleFailure(last'.res[1])
        /\ (last'.op = "acquire" /\ firstAvailable = 0) =>
              /\ last'.spawnable \subseteq deadIndexes
              /\ IF last'.spawnable = {}
                 THEN /\ last'.obj = NoObj
                      /\ last'.res = <<ExecError(NoAvailableWorkers)>>
                      /\ slots' = slots
                 ELSE /\ last'.obj.idx \in last'.spawnable
                      /\ \A j \in last'.spawnable : last'.obj.idx <= j
                      /\ last'.obj.gen = slots[last'.obj.idx].gen + 1
                      /\ slots' = [slots EXCEPT ![last'.obj.idx] =
                                     [gen |-> last'.obj.gen, busy |-> TRUE,
                                      alive |-> TRUE, since |-> 0]]
              /\ LastIOError =>
                    ((last.obj.idx \in last'.spawnable
                      /\ \A j \in last'.spawnable : last.obj.idx <= j)
                     <=> last'.obj = [idx |-> last.obj.idx, gen |-> last.obj.gen + 1]) ]_vars

\* a slot failed on its pipes and was respawned at its index while the
\* routine of the failed exchange still held the old object
C25_Witness ==
    /\ last.op = "acquire"
    /\ last.obj.gen = 1
    /\ \E r \in routines :
          /\ r.pc = "returning"
          /\ r.kind \in {"write", "read"}
          /\ r.obj = [idx |-> last.obj.idx, gen |-> 0]

\* C26: a response line that is not JSON makes Execute return a parse
\* error, which processJob sends through handleFailure, and leaves the
\* slot alive: once released the same object is in
\* ProcessPool.processes, alive and not busy, so the first loop of
\* acquireProcess can return it and nothing is respawned for it.
C26_ParseErrorKeepsSlot ==
    /\ (last.op = "exchange" /\ last.kind = "parse") =>
          /\ ThroughHandleFailure(last.res[1])
          /\ last.res[1].errText[1] = "failed to parse response: "
          /\ Current(last.obj)
          /\ LastSlot.alive
    /\ (last.op = "release" /\ last.kind = "parse") =>
          /\ Current(last.obj)
          /\ Available(LastSlot)
          /\ firstAvailable # 0
          /\ firstAvailable <= last.obj.idx

\* a slot was released after a parse error and is the one the next
\* acquisition returns
C26_Witness ==
    /\ last.op = "release"
    /\ last.kind = "parse"
    /\ firstAvailable = last.obj.idx
    /\ last.obj.idx > 1

\* C27: acquireProcess never waits.  When some slot is alive and not busy
\* it marks such a slot busy and returns it, spawning nothing; otherwise
\* it respawns the first dead index whose spawn succeeds and returns the
\* new object busy; otherwise it returns "no available workers" and leaves
\* every slot as it was.  A routine outside Execute can always take the
\* step.
C27_Acquire ==
    [][ /\ Cardinality(routines) < numWorkers => ENABLED ExecuteAcquire
        /\ last'.op = "acquire" =>
              IF \E i \in 1..maxWorkers : slots[i].alive /\ ~slots[i].busy
              THEN /\ last'.obj # NoObj
                   /\ last'.obj = ObjAt(last'.obj.idx)
                   /\ slots[last'.obj.idx].alive
                   /\ ~slots[last'.obj.idx].busy
                   /\ slots' = [slots EXCEPT ![last'.obj.idx].busy = TRUE]
                   /\ last'.spawnable = {}
                   /\ last'.failed = {}
                   /\ last'.res = <<>>
              ELSE IF last'.spawnable # {}
              THEN /\ last'.obj.idx \in last'.spawnable
                   /\ ~slots[last'.obj.idx].alive
                   /\ \A j \in last'.spawnable : last'.obj.idx <= j
                   /\ last'.failed = { j \in 1..maxWorkers :
                                         ~slots[j].alive /\ j < last'.obj.idx }
                   /\ slots'[last'.obj.idx].busy
                   /\ slots'[last'.obj.idx].alive
                   /\ slots'[last'.obj.idx].gen = slots[last'.obj.idx].gen + 1
                   /\ \A j \in 1..maxWorkers : j # last'.obj.idx => slots'[j] = slots[j]
                   /\ last'.res = <<>>
              ELSE /\ last'.obj = NoObj
                   /\ last'.res = <<ExecError(NoAvailableWorkers)>>
                   /\ last'.failed = { j \in 1..maxWorkers : ~slots[j].alive }
                   /\ slots' = slots
                   /\ routines' = routines ]_vars

\* the spawn of the first dead index failed and the second was respawned
C27_Witness ==
    /\ last.op = "acquire"
    /\ last.failed # {}
    /\ last.obj # NoObj
    /\ last.obj.gen = 1

\* C28: with as many dispatch routines as slots the pool is never
\* oversubscribed.  The busy slots are at most the routines inside
\* Execute, so a routine that enters finds a slot that is not busy; and
\* "no available workers" is returned only when there was a dead slot and
\* every respawn tried failed, never with every slot alive and busy.
C28_NeverOversubscribed ==
    /\ Cardinality({ i \in 1..maxWorkers : slots[i].busy }) <= Cardinality(routines)
    /\ Cardinality(routines) <= maxWorkers
    /\ (last.op = "acquire" /\ last.obj = NoObj) =>
          /\ last.failed # {}
          /\ last.failed = deadIndexes
          /\ \E i \in 1..maxWorkers : ~slots[i].alive
          /\ ~\A i \in 1..maxWorkers : slots[i].busy /\ slots[i].alive

\* "no available workers" while another routine is in an exchange
C28_Witness ==
    /\ last.op = "acquire"
    /\ last.obj = NoObj
    /\ \E r \in routines : r.pc = "exchange"

\* C29 as stated: releaseProcess clears busy and sets lastUsed after every
\* exchange, so the slot just released is not eligible for reaping.
C29_AsStated ==
    (last.op = "release" /\ Current(last.obj)) =>
        /\ ~LastSlot.busy
        /\ LastSlot.since = 0
        /\ ~Reapable(LastSlot)

\* C29, the case: a slot is released after a parse error with lastUsed as
\* old as before the exchange, and the reaper may kill it at once
C29_Witness ==
    /\ last.op = "release"
    /\ last.kind = "parse"
    /\ Current(last.obj)
    /\ Reapable(LastSlot)

\* C30: a run of cleanupIdleProcesses kills and marks dead exactly the
\* slots that are alive, not busy and idle for longer than idleTimeout;
\* every other slot, and every flag but alive of those slots, is left as
\* it was; no busy slot is touched and no routine is disturbed.
C30_ReaperExact ==
    [][ last'.op = "reap" =>
          /\ \A i \in 1..maxWorkers :
                IF slots[i].alive /\ ~slots[i].busy /\ slots[i].since > idleTimeout
                THEN /\ i \in last'.killed
                     /\ slots'[i] = [slots[i] EXCEPT !.alive = FALSE]
                ELSE /\ i \notin last'.killed
                     /\ slots'[i] = slots[i]
          /\ \A i \in 1..maxWorkers : slots[i].busy => slots'[i] = slots[i]
          /\ routines' = routines ]_vars

\* the reaper killed an idle slot past the timeout and left one that had
\* just reached it
C30_Witness ==
    /\ last.op = "reap"
    /\ last.killed # {}
    /\ \E i \in 1..maxWorkers :
          /\ i \notin last.killed
          /\ slots[i].alive
          /\ ~slots[i].busy
          /\ slots[i].since = idleTimeout

\* C32: the fleet has fixed size.  Once NewProcessPool returned the pool,
\* ProcessPool.processes holds maxWorkers slots at the indexes 1 to
\* maxWorkers whatever acquisitions, respawns, releases and reaper runs
\* follow, and a respawned object is stored at the index of the dead one.
\* When an initial spawn fails, the children spawned before it, all of
\* them, are killed, the reaper is not started, nothing is reaped, and
\* main exits on the error.
C32_FixedFleet ==
    /\ (\E k \in 1..Len(boot.built) : boot.built[k] = "processPool") =>
          /\ Len(slots) = maxWorkers
          /\ DOMAIN slots = 1..maxWorkers
          /\ boot.spawned = maxWorkers
          /\ boot.killed = 0
          /\ boot.reaper
    /\ (last.op = "acquire" /\ last.obj # NoObj) =>
          /\ last.obj.idx \in 1..maxWorkers
          /\ slots[last.obj.idx].gen = last.obj.gen
    /\ boot.failed = <<"NewProcessPool">> =>
          /\ boot.spawned < maxWorkers
          /\ Len(slots) = boot.spawned
          /\ boot.killed = boot.spawned
          /\ ~boot.reaper
          /\ boot.exit = <<1>>
          /\ \A k \in 1..Len(boot.built) : boot.built[k] # "processPool"
    /\ ~boot.reaper => last.op # "reap" /\ \A i \in 1..Len(slots) : slots[i].alive

\* a slot was reaped, respawned at its index and the new object released
C32_Witness ==
    /\ last.op = "release"
    /\ last.obj.gen = 1
    /\ Len(slots) = maxWorkers
    /\ ~slots[last.obj.idx].busy
    /\ \E r \in routines : r.pc = "returning" /\ r.obj.idx # last.obj.idx

\* an initial spawn failed after another had succeeded
C32_SpawnFailed ==
    /\ boot.failed = <<"NewProcessPool">>
    /\ boot.killed > 0

\* whether acquireProcess's first loop has a slot to return
SomeAvailable == \E j \in 1..maxWorkers : slots[j].alive /\ ~slots[j].busy

\* the indexes whose slot is marked dead
MarkedDead == { j \in 1..maxWorkers : ~slots[j].alive }

\* C31 as stated: with one slot dead, the next acquisition, no spawn
\* failing, respawns that slot.
C31_AsStated ==
    [][ \A i \in 1..maxWorkers :
          (deadIndexes = {i} /\ last'.op = "acquire" /\ last'.failed = {}) =>
              slots'[i].alive ]_vars

\* C31: a dead slot, whether the reaper or an I/O error marked it, is
\* respawned lazily.  An acquisition that finds an alive idle slot returns
\* it and leaves every dead slot dead; an acquisition that finds none
\* respawns the first dead index whose spawn succeeds and leaves the other
\* dead slots dead; nothing else makes a dead slot alive.
C31_LazyRespawn ==
    [][ /\ \A i \in 1..maxWorkers :
              (~slots[i].alive /\ slots'[i].alive) =>
                  /\ last'.op = "acquire"
                  /\ ~SomeAvailable
                  /\ last'.obj = [idx |-> i, gen |-> slots[i].gen + 1]
                  /\ i \in last'.spawnable
                  /\ \A j \in last'.spawnable : i <= j
        /\ (last'.op = "acquire" /\ SomeAvailable) =>
              /\ MarkedDead' = MarkedDead
              /\ \A i \in 1..maxWorkers : slots'[i].gen = slots[i].gen
        /\ (last'.op = "acquire" /\ ~SomeAvailable /\ last'.spawnable # {}) =>
              /\ last'.obj.idx \in MarkedDead
              /\ MarkedDead' = MarkedDead \ {last'.obj.idx}
              /\ slots'[last'.obj.idx].gen = slots[last'.obj.idx].gen + 1 ]_vars

\* a slot the reaper killed stays dead while an acquisition returns the
\* other slot, alive and idle
C31_Witness ==
    /\ last.op = "acquire"
    /\ last.obj.gen = 0
    /\ routines = {[obj |-> last.obj, pc |-> "exchange", kind |-> ""]}
    /\ \E i \in 1..maxWorkers :
          /\ i # last.obj.idx
          /\ ~slots[i].alive
          /\ ~slots[i].busy
          /\ slots[i].gen = 0

\* the ways an exchange fails: on the write, on the read
\* or on the parse
FailedKinds == {"write", "read", "parse"}

\* C36: failure isolation.  A failed exchange sets flags on the object the
\* routine holds and on no other slot, as does the release that ends that
\* Execute; a failed respawn leaves the slot it was for, and every slot but
\* the one respawned in the end, as they were.  The routine whose exchange
\* failed goes on to release and leaves Execute, and the routine that got
\* "no available workers" never entered: either is free to take the next
\* Job.
C36_FailureIsolation ==
    [][ /\ (last'.op = "exchange" /\ last'.kind \in FailedKinds) =>
              /\ \A j \in 1..maxWorkers :
                    ObjAt(j) # last'.obj => slots'[j] = slots[j]
              /\ Cardinality(routines') = Cardinality(routines)
              /\ \E r \in routines' :
                    r.obj = last'.obj /\ r.pc = "returning" /\ r.kind = last'.kind
        /\ (last'.op = "release" /\ last'.kind \in FailedKinds) =>
              /\ \A j \in 1..maxWorkers :
                    /\ ObjAt(j) # last'.obj => slots'[j] = slots[j]
                    /\ slots'[j].alive = slots[j].alive
              /\ routines' = routines \ {[obj |-> last'.obj, pc |-> "returning",
                                          kind |-> last'.kind]}
              /\ Cardinality(routines') < numWorkers
        /\ (last'.op = "acquire" /\ last'.failed # {}) =>
              /\ \A j \in 1..maxWorkers :
                    j # last'.obj.idx => slots'[j] = slots[j]
              /\ \A j \in last'.failed : slots'[j] = slots[j]
              /\ last'.obj = NoObj =>
                    /\ routines' = routines
                    /\ Cardinality(routines') < numWorkers ]_vars

\* a routine whose write or read failed releases its object after the slot
\* was respawned, and the new object, held by another routine, stays busy
C36_Witness ==
    /\ last.op = "release"
    /\ last.kind \in {"write", "read"}
    /\ ~Current(last.obj)
    /\ slots[last.obj.idx].busy
    /\ slots[last.obj.idx].alive
    /\ \E r \in routines : r.obj = ObjAt(last.obj.idx)

\* C35 as stated: once Pool.Shutdown closed the Job channel no routine
\* sends on it, in any interleaving of the forwarder with the teardown.
C35_AsStated == Done("close(p.jobs)") => ~Done("panic")

\* C35, the case: the forwarder's Submit sends on the closed Job channel
\* after every dispatch routine returned and the children were killed, the
\* consumer being still open
C35_Witness ==
    /\ Done("panic")
    /\ Done("processPool.Shutdown")
    /\ ~Done("consumer.Close")
    /\ returned = NumWorkers

\* the routines that hold the mutex routine t is about to lock
BlockedBy(t) ==
    IF thr[t].pc \in PoolLockAt THEN {mu.pool} \ {0}
    ELSE IF thr[t].pc \in ProcLoops
    THEN { h.who : h \in { g \in mu.proc : g.obj = ObjAt(thr[t].i) } }
    ELSE IF thr[t].pc = "releaseProcess"
    THEN { h.who : h \in { g \in mu.proc : g.obj = thr[t].obj } }
    ELSE {}

\* whether, going from routine t to the holder of the mutex it waits for,
\* and on from there, a routine that waits for nothing is found within n
\* steps (a mutex has one holder)
RECURSIVE Unblocks(_, _)
Unblocks(t, n) ==
    \/ BlockedBy(t) = {}
    \/ n > 0 /\ Unblocks(CHOOSE u \in BlockedBy(t) : TRUE, n - 1)

\* C33: the lock order is pool lock, then slot lock.  A routine about to
\* lock the pool holds no slot mutex; a routine locks a slot mutex in a
\* loop only while it holds the pool lock, and holds one slot mutex at a
\* time; releaseProcess locks the slot mutex holding nothing.  No
\* routines are deadlocked: from any routine that waits for a mutex, the
\* chain of holders ends at a routine that waits for none.
C33_LockOrder ==
    /\ \A t \in Threads :
          /\ thr[t].pc \in PoolLockAt => HoldsProc(t) = {} /\ mu.pool # t
          /\ thr[t].pc \in ProcLoops => HoldsProc(t) = {} /\ mu.pool = t
          /\ thr[t].pc = "releaseProcess" => HoldsProc(t) = {} /\ mu.pool # t
          /\ Cardinality(HoldsProc(t)) <= 1
          /\ HoldsProc(t) # {} =>
                \/ mu.pool = t /\ thr[t].pc \in { Locked(l) : l \in ProcLoops }
                \/ mu.pool # t /\ thr[t].pc = Locked("releaseProcess")
    /\ \A g, h \in mu.proc : g.obj = h.obj => g = h
    /\ \A t \in Threads : Unblocks(t, mainId)

\* the reaper holds the pool lock and waits for the mutex of a slot that a
\* dispatch routine holds in releaseProcess, while another routine waits
\* for the pool lock
C33_Witness ==
    /\ mu.pool = reaperId
    /\ thr[reaperId].pc = "cleanup loop"
    /\ \E u \in BlockedBy(reaperId) : thr[u].pc = Locked("releaseProcess")
    /\ \E v \in Threads : thr[v].pc = "acquireProcess" /\ BlockedBy(v) = {reaperId}
    /\ thr[mainId].pc = "Shutdown"

\* C34 as stated: a flag of a slot in ProcessPool.processes changes only
\* in a step of a routine that holds the slot's mutex, and a routine in
\* the exchange with a child holds the mutex of the slot.
C34_AsStated ==
    [][ /\ \A t \in Threads :
              thr[t].pc = "exchange" => [obj |-> thr[t].obj, who |-> t] \in mu.proc
        /\ \A t \in Threads, i \in 1..maxWorkers :
              (thr'[t] # thr[t] /\ slots'[i] # slots[i] /\ slots'[i].gen = slots[i].gen) =>
                  [obj |-> ObjAt(i), who |-> t] \in mu.proc ]_vars

\* C34, the case: a dispatch routine is in the exchange, about to write
\* alive or lastUsed on its slot without the mutex, while another routine
\* holds that slot's mutex to read the flags
C34_Witness ==
    \E t, u \in Threads :
        /\ t # u
        /\ thr[t].pc = "exchange"
        /\ Current(thr[t].obj)
        /\ [obj |-> thr[t].obj, who |-> u] \in mu.proc
        /\ thr[u].pc \in {Locked("second loop"), Locked("cleanup loop")}

====
